---- MODULE Spec2Model ----
(***************************************************************************)
(* Model of the drug-drug-interaction scrapers:                            *)
(*   src/playwright_ddi_scraper.py  (drugs.com)                            *)
(*   src/drugbank_ddi_scraper.py    (DrugBank demo checker)                *)
(*   src/scrape_drugbank_ddi.py     (first DrugBank scraper)               *)
(* Python strings are sequences of one-character strings, so that          *)
(* lower(), strip(), split(), startswith() and "in" are computed.          *)
(***************************************************************************)
EXTENDS Integers, Sequences, FiniteSets, TLC

VARIABLES
    drug_name,      \* _select_best_match: the typed drug name
    options,        \* _select_best_match: the dropdown option texts, in list order
    best_match,     \* _select_best_match: <<>> before the call, then <<k>>, k the
                    \* position of the returned option (0 is None)
    widget,         \* _add_drug: the drugs the page's widget has registered
    commits,        \* _add_drug: per call, the commit actions made ("click", "enter")
    string1,        \* _calculate_similarity: the argument str1
    string2,        \* _calculate_similarity: the argument str2
    similarity_score,  \* _calculate_similarity: <<>>, then <<the score as a fraction>>
    site,           \* which scraper runs: "drugscom", "drugbank" or "legacy"
    pair,           \* check_interaction: the drug pair [a, b] being checked
    page,           \* check_interaction: what the page answers for this pair
    extracted,      \* <<>>, then <<outcome>> of the result extractor on the page
    debug_files,    \* the reason tags of the diagnostic snapshots written, by the call that wrote them
    clicks,         \* <<>>, then <<what one _click_check_button call did on the page>>
    result,         \* <<>>, then <<outcome>> of check_interaction on the page;
                    \* in the entry step, the outcomes of the _add_drug calls
    table0,         \* the input file before the first run
    oracle,         \* what the site answers for the pair of each row
    in_place,       \* the output path is the input path (no --output given)
    input_file,     \* the input CSV file
    output_file,    \* the output CSV file when it is not the input file
    checkpoint_file,\* the checkpoint CSV file
    df,             \* process_drug_pairs: the DataFrame of the run
    idx,            \* process_drug_pairs: the 0-based index of the next row
    calls,          \* the number of calls of check_interaction (process_row) this
                    \* run made for each row
    start_row,      \* process_drug_pairs: the start of the row range, as given
    end_row,        \* process_drug_pairs: the end of the row range (exclusive)
    pc,             \* "idle", "loop" (in the row loop), "done", "stopped"
    run,            \* the number of runs started
    ended,          \* how the runs before this one ended, in order: "done",
                    \* "interrupted" (handled), "cancelled", "crashed",
                    \* "rejected" (the input was not accepted)
    input_kind,     \* what the input path names: "table", or "missing",
                    \* "unreadable", "unsupported" (format), "no_columns"
    sessions,       \* the number of browser sessions opened
    closes,         \* the number of browser sessions closed
    carried,        \* the drugs of earlier pairs that were in the widget when the
                    \* entry step of a pair began, over the pairs of this run
    exit_status,    \* the exit status of each process that has ended, in order
    delay_arg,      \* the rate limit: the --delay argument, in ms
    random_delay_ms,\* the rate limit: the draw of random.randint(1000, 2000)
    total_wait      \* the rate limit: <<>>, then <<ms waited after the pair>>

simVars == <<string1, string2, similarity_score>>
callVars == <<delay_arg, random_delay_ms, total_wait, commits, simVars>>
matchVars == <<drug_name, options, best_match, widget, callVars>>
checkVars == <<site, pair, page, extracted, debug_files, clicks, result>>
fileVars == <<input_file, output_file, checkpoint_file>>
batchVars ==
    <<table0, oracle, in_place, fileVars, df, idx, calls, start_row, end_row, pc, run,
      ended,
      input_kind, sessions, closes, carried, exit_status>>
vars == <<matchVars, checkVars, batchVars>>

\* no diagnostic snapshot has been written
NoDebugFiles == [extractor |-> <<>>, check_interaction |-> <<>>]

(***************************************************************************)
(* Python str operations                                                   *)
(***************************************************************************)
UpperChars == <<"A","B","C","D","E","F","G","H","I","J","K","L","M",
                "N","O","P","Q","R","S","T","U","V","W","X","Y","Z">>
LowerChars == <<"a","b","c","d","e","f","g","h","i","j","k","l","m",
                "n","o","p","q","r","s","t","u","v","w","x","y","z">>

\* upper-case letter -> lower-case letter, and back
ToLower == [c \in {UpperChars[i] : i \in 1..Len(UpperChars)} |->
               LowerChars[CHOOSE i \in 1..Len(UpperChars) : UpperChars[i] = c]]
ToUpper == [c \in {LowerChars[i] : i \in 1..Len(LowerChars)} |->
               UpperChars[CHOOSE i \in 1..Len(LowerChars) : LowerChars[i] = c]]

LowerChar(c) == IF c \in DOMAIN ToLower THEN ToLower[c] ELSE c

UpperChar(c) == IF c \in DOMAIN ToUpper THEN ToUpper[c] ELSE c

\* str.lower()
StrLower(s) == [i \in 1..Len(s) |-> LowerChar(s[i])]

\* str.upper()
StrUpper(s) == [i \in 1..Len(s) |-> UpperChar(s[i])]

RECURSIVE LStrip(_)
LStrip(s) == IF s # <<>> /\ Head(s) = " " THEN LStrip(Tail(s)) ELSE s

RECURSIVE RStrip(_)
RStrip(s) ==
    IF s # <<>> /\ s[Len(s)] = " " THEN RStrip(SubSeq(s, 1, Len(s) - 1)) ELSE s

\* str.strip()
Strip(s) == RStrip(LStrip(s))

\* s.startswith(p)
StartsWith(s, p) == Len(p) <= Len(s) /\ SubSeq(s, 1, Len(p)) = p

\* sub in s
StrIn(sub, s) ==
    \E i \in 0..(Len(s) - Len(sub)) : SubSeq(s, i + 1, i + Len(sub)) = sub

\* s.split(ch)[0]
RECURSIVE SplitFirst(_, _)
SplitFirst(s, ch) ==
    IF s = <<>> \/ Head(s) = ch THEN <<>>
    ELSE <<Head(s)>> \o SplitFirst(Tail(s), ch)

(***************************************************************************)
(* DrugBankDDIScraper._calculate_similarity and _select_best_match         *)
(***************************************************************************)
\* the while loop of _calculate_similarity; i and j are the 0-based indices
RECURSIVE CountMatches(_, _, _, _, _)
CountMatches(str1, str2, i, j, matches) ==
    IF i < Len(str1) /\ j < Len(str2)
    THEN IF str1[i + 1] = str2[j + 1]
         THEN CountMatches(str1, str2, i + 1, j + 1, matches + 1)
         ELSE CountMatches(str1, str2, i, j + 1, matches)
    ELSE matches

\* C30 mutant: the loop of _calculate_similarity without "j += 1" after a match,
\* so that one character of str2 is matched again and again
RECURSIVE CountMatchesReusing(_, _, _, _, _)
CountMatchesReusing(str1, str2, i, j, matches) ==
    IF i < Len(str1) /\ j < Len(str2)
    THEN IF str1[i + 1] = str2[j + 1]
         THEN CountMatchesReusing(str1, str2, i + 1, j, matches + 1)
         ELSE CountMatchesReusing(str1, str2, i, j + 1, matches)
    ELSE matches

calculate_similarity_reusing(str1, str2) ==
    IF str1 = <<>> \/ str2 = <<>> THEN <<0, 1>>
    ELSE <<2 * CountMatchesReusing(str1, str2, 0, 0, 0), Len(str1) + Len(str2)>>

\* The score matches / ((len1 + len2) / 2) as the fraction <<2*matches, len1+len2>>;
\* 0.0 is <<0, 1>>.
calculate_similarity(str1, str2) ==
    IF str1 = <<>> \/ str2 = <<>> THEN <<0, 1>>
    ELSE <<2 * CountMatches(str1, str2, 0, 0, 0), Len(str1) + Len(str2)>>

\* a > b on fractions with positive denominators
FracGreater(a, b) == a[1] * b[2] > b[1] * a[2]

\* the literal 0.5 of "best_similarity > 0.5"
SimilarityThreshold == <<1, 2>>

\* option_text_lower.split('(')[0].split('[')[0].strip()
OptionDrugName(option_text_lower) ==
    Strip(SplitFirst(SplitFirst(option_text_lower, "("), "["))

\* the test of strategy s (1 exact, 2 starts with, 3 contains, 4 reverse contains)
StrategyTest(s, drug_name_lower, option_text) ==
    LET option_text_lower == Strip(StrLower(option_text))
    IN  CASE s = 1 -> drug_name_lower = option_text_lower
          [] s = 2 -> StartsWith(option_text_lower, drug_name_lower)
          [] s = 3 -> StrIn(drug_name_lower, option_text_lower)
          [] s = 4 -> StrIn(OptionDrugName(option_text_lower), drug_name_lower)

\* "for option in options: if <test>: return option" from position k on
RECURSIVE StrategyLoop(_, _, _, _)
StrategyLoop(s, drug_name_lower, opts, k) ==
    IF k > Len(opts) THEN 0
    ELSE IF StrategyTest(s, drug_name_lower, opts[k]) THEN k
    ELSE StrategyLoop(s, drug_name_lower, opts, k + 1)

\* the loop of strategy 5: <<best_option, best_similarity>>
RECURSIVE SimilarityLoop(_, _, _, _, _)
SimilarityLoop(drug_name_lower, opts, k, best_option, best_similarity) ==
    IF k > Len(opts) THEN <<best_option, best_similarity>>
    ELSE LET similarity ==
                 calculate_similarity(drug_name_lower,
                                      OptionDrugName(Strip(StrLower(opts[k]))))
         IN  IF FracGreater(similarity, best_similarity)
             THEN SimilarityLoop(drug_name_lower, opts, k + 1, k, similarity)
             ELSE SimilarityLoop(drug_name_lower, opts, k + 1,
                                 best_option, best_similarity)

\* the strategies tried in order from strategy s on
RECURSIVE StrategiesFrom(_, _, _)
StrategiesFrom(s, drug_name_lower, opts) ==
    IF s <= 4
    THEN LET hit == StrategyLoop(s, drug_name_lower, opts, 1)
         IN  IF hit # 0 THEN hit ELSE StrategiesFrom(s + 1, drug_name_lower, opts)
    ELSE LET best == SimilarityLoop(drug_name_lower, opts, 1, 0, <<0, 1>>)
         IN  IF best[1] # 0 /\ FracGreater(best[2], SimilarityThreshold)
             THEN best[1]
             ELSE 1

\* C10 mutant: the first option, in list order, that satisfies any of the four
\* rules, whatever the rank of the rule
select_best_match_unranked(name, opts) ==
    LET drug_name_lower == Strip(StrLower(name))
        hits == {k \in 1..Len(opts) :
                    \E s \in 1..4 : StrategyTest(s, drug_name_lower, opts[k])}
    IN  IF opts = <<>> THEN 0
        ELSE IF hits # {} THEN CHOOSE k \in hits : \A j \in hits : k <= j
        ELSE StrategiesFrom(5, drug_name_lower, opts)


\* C37 mutant: _select_best_match without its last resort: None is returned
\* when no strategy finds a match
RECURSIVE StrategiesFromWithoutLastResort(_, _, _)
StrategiesFromWithoutLastResort(s, drug_name_lower, opts) ==
    IF s <= 4
    THEN LET hit == StrategyLoop(s, drug_name_lower, opts, 1)
         IN  IF hit # 0 THEN hit
             ELSE StrategiesFromWithoutLastResort(s + 1, drug_name_lower, opts)
    ELSE LET best == SimilarityLoop(drug_name_lower, opts, 1, 0, <<0, 1>>)
         IN  IF best[1] # 0 /\ FracGreater(best[2], SimilarityThreshold)
             THEN best[1]
             ELSE 0

select_best_match_without_last_resort(name, opts) ==
    IF opts = <<>> THEN 0
    ELSE StrategiesFromWithoutLastResort(1, Strip(StrLower(name)), opts)

\* The position in opts of the returned option; 0 is None.
select_best_match(name, opts) ==
    IF opts = <<>> THEN 0
    ELSE StrategiesFrom(1, Strip(StrLower(name)), opts)

(***************************************************************************)
(* Python values.  A str is a sequence of characters; NaN, None and a      *)
(* raised page operation are one-element sequences no str is equal to.     *)
(***************************************************************************)
NaN == <<"<NaN>">>
PyNone == <<"<None>">>
Raise == <<"<raise>">>

\* str.capitalize()
Capitalize(s) ==
    [i \in 1..Len(s) |-> IF i = 1 THEN UpperChar(s[i]) ELSE LowerChar(s[i])]

Major == <<"M","a","j","o","r">>
Moderate == <<"M","o","d","e","r","a","t","e">>
Minor == <<"M","i","n","o","r">>
NoneSeverity == <<"N","o","n","e">>
ErrorSeverity == <<"E","r","r","o","r">>
TimeoutSeverity == <<"T","i","m","e","o","u","t">>

\* the upper-case vocabulary ["MAJOR", "MODERATE", "MINOR"], in the order it is scanned
SeverityKeywords == <<StrUpper(Major), StrUpper(Moderate), StrUpper(Minor)>>

\* 'No drug-drug interactions found'
NoInteractionText == 
    <<"N","o"," ","d","r","u","g","-","d","r","u","g"," ","i","n","t","e","r","a","c",
      "t","i","o","n","s"," ","f","o","u","n","d">>
\* 'Error extracting interaction information'
ErrorExtractingText == 
    <<"E","r","r","o","r"," ","e","x","t","r","a","c","t","i","n","g"," ","i","n","t",
      "e","r","a","c","t","i","o","n"," ","i","n","f","o","r","m","a","t","i","o","n">>
\* 'Request timed out'
RequestTimedOutText == <<"R","e","q","u","e","s","t"," ","t","i","m","e","d"," ","o","u","t">>
\* the prefix of f"Timeout error: {str(e)}"
TimeoutErrorPrefix == <<"T","i","m","e","o","u","t"," ","e","r","r","o","r",":"," ">>
\* the prefix of f"Error: {str(e)}"
ErrorPrefix == <<"E","r","r","o","r",":"," ">>
\* str(e) of the ValueError of unpacking more than two values into two names
TooManyValuesText == 
    <<"t","o","o"," ","m","a","n","y"," ","v","a","l","u","e","s"," ","t","o"," ","u",
      "n","p","a","c","k"," ","(","e","x","p","e","c","t","e","d"," ","2",")">>
\* str(e) of the ValueError of unpacking fewer than two values into two names
NotEnoughValuesText == 
    <<"n","o","t"," ","e","n","o","u","g","h"," ","v","a","l","u","e","s"," ","t","o",
      " ","u","n","p","a","c","k"," ","(","e","x","p","e","c","t","e","d"," ","2",")">>

(***************************************************************************)
(* The outcome of a call: a returned value or a raised exception           *)
(***************************************************************************)
Return(v) == [kind |-> "return", value |-> v, exc |-> "", msg |-> <<>>]
Raised(e, m) == [kind |-> "raise", value |-> <<>>, exc |-> e, msg |-> m]

(***************************************************************************)
(* PlaywrightDDIScraper._extract_severity (drugs.com)                      *)
(* A page p records what each page operation of the extractor answers.     *)
(***************************************************************************)
\* "No drug" in section_text and "drug interactions were found" in section_text
NoDrugPhrase == <<"N","o"," ","d","r","u","g">>
WereFoundPhrase == 
    <<"d","r","u","g"," ","i","n","t","e","r","a","c","t","i","o","n","s"," ","w","e",
      "r","e"," ","f","o","u","n","d">>

MajorClass == 
    <<"s","t","a","t","u","s","-","c","a","t","e","g","o","r","y","-","m","a","j","o",
      "r">>
ModerateClass == 
    <<"s","t","a","t","u","s","-","c","a","t","e","g","o","r","y","-","m","o","d","e",
      "r","a","t","e">>
MinorClass == 
    <<"s","t","a","t","u","s","-","c","a","t","e","g","o","r","y","-","m","i","n","o",
      "r">>

\* the fallback heading selectors are tried in order; the first visible one is the header
FallbackHeaderFound(p) ==
    \E k \in 1..Len(p.fallback) : p.fallback[k] = "visible"

\* C38 mutant: Method 3 returns the keyword as found, without capitalize()
RECURSIVE KeywordInAsFound(_, _)
KeywordInAsFound(element_text_clean, k) ==
    IF k > Len(SeverityKeywords) THEN <<>>
    ELSE IF StrIn(SeverityKeywords[k], element_text_clean)
         THEN <<SeverityKeywords[k]>>
         ELSE KeywordInAsFound(element_text_clean, k + 1)

\* Method 3: the first keyword of the vocabulary contained in the element text
RECURSIVE KeywordIn(_, _)
KeywordIn(element_text_clean, k) ==
    IF k > Len(SeverityKeywords) THEN <<>>
    ELSE IF StrIn(SeverityKeywords[k], element_text_clean)
         THEN <<Capitalize(SeverityKeywords[k])>>
         ELSE KeywordIn(element_text_clean, k + 1)

\* One element of the severity scan: <<severity>> when it yields one, <<>> when not.
ElementSeverity(element) ==
    IF element.class = Raise \/ element.text = Raise THEN <<>>
    ELSE LET element_class == IF element.class = PyNone THEN <<>> ELSE element.class
             element_text_clean == StrUpper(Strip(element.text))
         IN  IF StrIn(MajorClass, element_class) THEN <<Major>>
             ELSE IF StrIn(ModerateClass, element_class) THEN <<Moderate>>
             ELSE IF StrIn(MinorClass, element_class) THEN <<Minor>>
             ELSE IF \E k \in 1..Len(SeverityKeywords) :
                         SeverityKeywords[k] = element_text_clean
                  THEN <<Capitalize(element_text_clean)>>
             ELSE KeywordIn(element_text_clean, 1)

\* "for element in severity_elements" from position k on
RECURSIVE ElementLoop(_, _)
ElementLoop(elements, k) ==
    IF k > Len(elements) THEN <<>>
    ELSE IF ElementSeverity(elements[k]) # <<>> THEN ElementSeverity(elements[k])
    ELSE ElementLoop(elements, k + 1)

\* "for selector in severity_selectors" from position k on; a selector whose
\* query raises is skipped
RECURSIVE SelectorLoop(_, _)
SelectorLoop(scan, k) ==
    IF k > Len(scan) THEN <<>>
    ELSE IF ~scan[k].raises /\ ElementLoop(scan[k].elements, 1) # <<>>
         THEN ElementLoop(scan[k].elements, 1)
    ELSE SelectorLoop(scan, k + 1)

\* STEP 5: the class tokens in the lower-cased inner HTML of the section
HtmlSeverity(html) ==
    IF html = Raise THEN <<>>
    ELSE LET content_lower == StrLower(html)
         IN  IF StrIn(MajorClass, content_lower) THEN <<Major>>
             ELSE IF StrIn(ModerateClass, content_lower) THEN <<Moderate>>
             ELSE IF StrIn(MinorClass, content_lower) THEN <<Minor>>
             ELSE <<>>

\* STEP 1 at "Heading exists but not visible": the value returned there
HeaderNotVisibleReturn == NoneSeverity

\* STEPS 4 to 6 with the section text read
SeverityScan(p, section_text) ==
    LET found == SelectorLoop(p.scan, 1)
        html == HtmlSeverity(p.html)
    IN  IF found # <<>> THEN Return(<<found[1], Strip(section_text)>>)
        ELSE IF html # <<>> THEN Return(<<html[1], Strip(section_text)>>)
        ELSE Return(<<NoneSeverity,
                      IF section_text # <<>> THEN Strip(section_text)
                      ELSE NoInteractionText>>)

\* STEPS 2 and 3: the section after the heading and its text
SectionSteps(p) ==
    LET section == IF p.h2 = "none" THEN p.h3 ELSE p.h2
    IN  IF section = "raise" \/ (section = "element" /\ p.section_class = "raise")
        THEN Return(<<NoneSeverity, NoInteractionText>>)
        ELSE IF section = "none"
        THEN Return(<<NoneSeverity, NoInteractionText>>)
        ELSE IF p.section_text = Raise THEN SeverityScan(p, <<>>)
        ELSE IF StrIn(NoDrugPhrase, p.section_text)
                /\ StrIn(WereFoundPhrase, p.section_text)
        THEN Return(<<NoneSeverity, NoInteractionText>>)
        ELSE SeverityScan(p, p.section_text)

\* The outcome of _extract_severity on page p
extract_severity(p) ==
    IF p.role = "hidden" THEN Return(HeaderNotVisibleReturn)
    ELSE IF p.role = "raise" /\ ~FallbackHeaderFound(p)
    THEN Return(<<NoneSeverity, NoInteractionText>>)
    ELSE SectionSteps(p)

\* _save_debug_info(reason): the screenshot and the page HTML are written under
\* the reason tag; a failure of the page while saving is swallowed and nothing
\* is kept
save_debug_info(p, reason) ==
    IF p.shot = "ok" THEN <<reason>> ELSE <<>>

\* STEP 1: the header guard lets the extraction go on
HeaderFound(p) ==
    p.role = "visible" \/ (p.role = "raise" /\ FallbackHeaderFound(p))

\* STEP 2: what the h2 lookup, and after an empty answer the h3 lookup, answers
SectionLookup(p) == IF p.h2 = "none" THEN p.h3 ELSE p.h2

\* STEP 2 ends with interaction_section bound to an element
SectionFound(p) ==
    HeaderFound(p) /\ SectionLookup(p) = "element" /\ p.section_class # "raise"

\* STEP 3 does not return: the text could not be read or is not the sentinel
ScanReached(p) ==
    /\ SectionFound(p)
    /\ \/ p.section_text = Raise
       \/ ~(StrIn(NoDrugPhrase, p.section_text)
            /\ StrIn(WereFoundPhrase, p.section_text))

\* C24 mutant: _extract_severity without the _save_debug_info call of STEP 6
debug_info_without_step6(p) ==
    IF ~HeaderFound(p) THEN <<>>
    ELSE IF SectionLookup(p) = "raise"
            \/ (SectionLookup(p) = "element" /\ p.section_class = "raise")
    THEN save_debug_info(p, "section_extraction_error")
    ELSE IF SectionLookup(p) = "none"
    THEN save_debug_info(p, "header_found_but_no_section")
    ELSE <<>>

\* The diagnostic snapshots _extract_severity saves on page p, by reason tag
debug_info(p) ==
    IF ~HeaderFound(p) THEN <<>>
    ELSE IF SectionLookup(p) = "raise"
            \/ (SectionLookup(p) = "element" /\ p.section_class = "raise")
    THEN save_debug_info(p, "section_extraction_error")
    ELSE IF SectionLookup(p) = "none"
    THEN save_debug_info(p, "header_found_but_no_section")
    ELSE IF ~ScanReached(p) THEN <<>>
    ELSE IF SelectorLoop(p.scan, 1) # <<>> \/ HtmlSeverity(p.html) # <<>> THEN <<>>
    ELSE save_debug_info(p, "header_found_no_severity")

(***************************************************************************)
(* DrugBankDDIScraper: _click_check_button, _extract_severity,             *)
(* _extract_description, _extract_severity_and_text                        *)
(***************************************************************************)
\* str(e) of a Playwright timeout and of another page failure, as the page gives them
PlaywrightTimeoutText == 
    <<"T","i","m","e","o","u","t"," ","3","0","0","0","0","m","s"," ","e","x","c","e",
      "e","d","e","d",".">>
PageErrorText == 
    <<"T","a","r","g","e","t"," ","p","a","g","e",","," ","c","o","n","t","e","x","t",
      " ","o","r"," ","b","r","o","w","s","e","r"," ","h","a","s"," ","b","e","e","n",
      " ","c","l","o","s","e","d">>

\* what a failing page operation raises: "timeout" is PlaywrightTimeoutError
StepRaise(outcome) ==
    IF outcome = "timeout" THEN Raised("PlaywrightTimeoutError", PlaywrightTimeoutText)
    ELSE Raised("Exception", PageErrorText)

\* 'Could not find Check Interactions button with any known selector'
NoButtonText == 
    <<"C","o","u","l","d"," ","n","o","t"," ","f","i","n","d"," ","C","h","e","c","k",
      " ","I","n","t","e","r","a","c","t","i","o","n","s"," ","b","u","t","t","o","n",
      " ","w","i","t","h"," ","a","n","y"," ","k","n","o","w","n"," ","s","e","l","e",
      "c","t","o","r">>

\* C26 mutant: _click_check_button without its alternative selectors
click_check_button_primary_only(p) ==
    IF p.click[1] = "ok" THEN Return(1) ELSE Raised("Exception", NoButtonText)

\* _click_check_button: the primary selector, then the alternatives, in order; every
\* failure of a strategy is swallowed; Return(k) is the strategy that clicked
click_check_button(p) ==
    IF \E k \in 1..Len(p.click) : p.click[k] = "ok"
    THEN Return(CHOOSE k \in 1..Len(p.click) :
                    p.click[k] = "ok" /\ \A j \in 1..(k - 1) : p.click[j] # "ok")
    ELSE Raised("Exception", NoButtonText)

\* The clicks one _click_check_button call lands, by strategy: p.click[k] is the
\* outcome of "wait_for_selector then click" of strategy k, and the call returns
\* right after the first click that succeeds
RECURSIVE ClickLoop(_, _)
ClickLoop(p, k) ==
    IF k > Len(p.click) THEN <<>>
    ELSE IF p.click[k] = "ok" THEN <<k>>
    ELSE ClickLoop(p, k + 1)

\* the if/elif chain "MAJOR" in t, "MODERATE" in t, "MINOR" in t
KeywordChain(text_upper) ==
    IF StrIn(StrUpper(Major), text_upper) THEN <<Major>>
    ELSE IF StrIn(StrUpper(Moderate), text_upper) THEN <<Moderate>>
    ELSE IF StrIn(StrUpper(Minor), text_upper) THEN <<Minor>>
    ELSE <<>>

\* Strategy 2 of _extract_severity from element k on: an element whose inner_text
\* raises ends the strategy
RECURSIVE SeverityClassLoop(_, _)
SeverityClassLoop(elements, k) ==
    IF k > Len(elements) THEN <<>>
    ELSE IF elements[k] = Raise THEN <<>>
    ELSE IF KeywordChain(StrUpper(Strip(elements[k]))) # <<>>
         THEN KeywordChain(StrUpper(Strip(elements[k])))
    ELSE SeverityClassLoop(elements, k + 1)

\* DrugBankDDIScraper._extract_severity: the returned str
extract_severity_drugbank(p) ==
    LET s1 == IF p.severity_text = Raise THEN <<>>
              ELSE KeywordChain(StrUpper(Strip(p.severity_text)))
        s2 == IF p.severity_elements.raises THEN <<>>
              ELSE SeverityClassLoop(p.severity_elements.elements, 1)
        s3 == IF p.content = Raise THEN <<>> ELSE KeywordChain(StrUpper(p.content))
    IN  IF s1 # <<>> THEN s1[1]
        ELSE IF s2 # <<>> THEN s2[1]
        ELSE IF s3 # <<>> THEN s3[1]
        ELSE NoneSeverity

\* "len(description_text) > 10" and "len(div_text) > 50"
MinDescriptionLen == 10
MinDivLen == 50

\* 'No description found'
NoDescriptionText == <<"N","o"," ","d","e","s","c","r","i","p","t","i","o","n"," ","f","o","u","n","d">>

\* Strategy 3 of _extract_description from div k on
RECURSIVE DivLoop(_, _)
DivLoop(divs, k) ==
    IF k > Len(divs) THEN <<>>
    ELSE IF divs[k] = Raise THEN <<>>
    ELSE IF Len(divs[k]) > MinDivLen THEN <<Strip(divs[k])>>
    ELSE DivLoop(divs, k + 1)

\* DrugBankDDIScraper._extract_description: the returned str
extract_description(p) ==
    LET d1 == IF p.description_text = Raise THEN <<>> ELSE Strip(p.description_text)
        d2 == IF p.container_text = Raise THEN <<>> ELSE Strip(p.container_text)
        d3 == IF p.divs.raises THEN <<>> ELSE DivLoop(p.divs.elements, 1)
    IN  IF Len(d1) > MinDescriptionLen THEN d1
        ELSE IF Len(d2) > MinDescriptionLen THEN d2
        ELSE IF d3 # <<>> THEN d3[1]
        ELSE NoDescriptionText

\* f"No interaction found for {drug1} + {drug2}"
NoInteractionFor(drug1, drug2) ==
    <<"N","o"," ","i","n","t","e","r","a","c","t","i","o","n"," ","f","o","u","n","d",
      " ","f","o","r"," ">> \o drug1 \o <<" ","+"," ">> \o drug2

\* DrugBankDDIScraper._extract_severity_and_text: "except Exception: ... raise"
extract_severity_and_text(drug1, drug2, p) ==
    IF p.container \in {"timeout", "error"} THEN StepRaise(p.container)
    ELSE IF p.container = "none"
    THEN Raised("Exception", NoInteractionFor(drug1, drug2))
    ELSE Return(<<extract_severity_drugbank(p), extract_description(p)>>)

(***************************************************************************)
(* check_interaction of both scrapers                                      *)
(***************************************************************************)
\* _add_drug(drug_name) for the first (which = 1) or second drug: it re-raises
add_drug(p, which) ==
    IF p.add[which] = "ok" THEN Return(<<>>) ELSE StepRaise(p.add[which])

\* "severity, interaction_text = <value>"
Unpack2(value) ==
    IF Len(value) = 2 THEN Return(value)
    ELSE IF Len(value) > 2 THEN Raised("ValueError", TooManyValuesText)
    ELSE Raised("ValueError", NotEnoughValuesText)

\* drugs.com: f"Could not find or click the 'Check Interactions' button with
\* selector: {check_button_selector}"
ButtonErrorDrugsCom ==
    <<"C","o","u","l","d"," ","n","o","t"," ","f","i","n","d"," ","o","r"," ","c","l",
      "i","c","k"," ","t","h","e"," ","'","C","h","e","c","k"," ","I","n","t","e","r",
      "a","c","t","i","o","n","s","'"," ","b","u","t","t","o","n"," ","w","i","t","h",
      " ","s","e","l","e","c","t","o","r",":"," ">>
    \o 
    <<"#","i","n","t","e","r","a","c","t","i","o","n","_","l","i","s","t"," ",">"," ",
      "d","i","v"," ",">"," ","a">>

\* DrugBank: f"Could not find or click the 'Check Interactions' button: {str(e)}"
ButtonErrorDrugBank(msg) ==
    <<"C","o","u","l","d"," ","n","o","t"," ","f","i","n","d"," ","o","r"," ","c","l",
      "i","c","k"," ","t","h","e"," ","'","C","h","e","c","k"," ","I","n","t","e","r",
      "a","c","t","i","o","n","s","'"," ","b","u","t","t","o","n",":"," ">> \o msg

\* drugs.com: the button step; its handler takes a screenshot and the page HTML
\* and raises Exception
ButtonStepDrugsCom(p) ==
    IF p.button = "ok" THEN Return(<<>>)
    ELSE IF p.shot # "ok" THEN StepRaise(p.shot)
    ELSE Raised("Exception", ButtonErrorDrugsCom)

\* DrugBank: the button step; _save_debug_info swallows its own failures
ButtonStepDrugBank(p) ==
    IF click_check_button(p).kind = "return" THEN Return(<<>>)
    ELSE Raised("Exception", ButtonErrorDrugBank(click_check_button(p).msg))

\* The try body of check_interaction up to the extracted (severity, text).  The
\* drugs.com visit of the homepage and the check of #interaction_list swallow
\* their failures.
TryBody(s, drug1, drug2, p) ==
    LET button == IF s = "drugscom" THEN ButtonStepDrugsCom(p)
                  ELSE ButtonStepDrugBank(p)
        ext == IF s = "drugscom" THEN extract_severity(p)
                     ELSE extract_severity_and_text(drug1, drug2, p)
    IN  IF p.goto # "ok" THEN StepRaise(p.goto)
        ELSE IF add_drug(p, 1).kind = "raise" THEN add_drug(p, 1)
        ELSE IF add_drug(p, 2).kind = "raise" THEN add_drug(p, 2)
        ELSE IF button.kind = "raise" THEN button
        ELSE IF p.load # "ok" THEN StepRaise(p.load)
        ELSE IF ext.kind = "raise" THEN ext
        ELSE Unpack2(ext.value)

\* C6 mutant: 'None' is left out of the severities whose status is Success
StatusOfWithoutNone(severity) ==
    IF severity = ErrorSeverity THEN "Failed"
    ELSE IF severity \in {Major, Moderate, Minor} THEN "Success"
    ELSE "Completed with issues"

\* "Set status based on severity result"
StatusOf(severity) ==
    IF severity = ErrorSeverity THEN "Failed"
    ELSE IF severity \in {NoneSeverity, Major, Moderate, Minor} THEN "Success"
    ELSE "Completed with issues"

\* the result dict before the try block (the keys DrugsCom_Severity/DrugBank_Severity
\* and DrugsCom_Text/DrugBank_Text are Severity and Text; Check_Timestamp is left out)
InitialResult(drug1, drug2) ==
    [Drug1 |-> drug1, Drug2 |-> drug2, Severity |-> ErrorSeverity,
     Text |-> ErrorExtractingText, Status |-> "Failed", Error_Message |-> PyNone]

\* C7 mutant: check_interaction without its except clauses, the exception leaves it
ExceptHandlersMissing(res, raised) == raised

\* "except PlaywrightTimeoutError" and "except Exception" of check_interaction
ExceptHandlers(res, raised) ==
    IF raised.exc = "PlaywrightTimeoutError"
    THEN Return([res EXCEPT !.Error_Message = TimeoutErrorPrefix \o raised.msg,
                               !.Severity = TimeoutSeverity,
                               !.Text = RequestTimedOutText])
    ELSE Return([res EXCEPT !.Error_Message = ErrorPrefix \o raised.msg,
                               !.Severity = ErrorSeverity,
                               !.Text = ErrorPrefix \o raised.msg])

\* check_interaction(drug1, drug2) of site "drugscom" or "drugbank" on page p
check_interaction(s, drug1, drug2, p) ==
    LET res == InitialResult(drug1, drug2)
        body == TryBody(s, drug1, drug2, p)
    IN  IF body.kind = "return"
        THEN Return([res EXCEPT !.Severity = body.value[1],
                                   !.Text = body.value[2],
                                   !.Status = StatusOf(body.value[1]),
                                   !.Error_Message = PyNone])
        ELSE ExceptHandlers(res, body)

(***************************************************************************)
(* DrugBankScraper (scrape_drugbank_ddi.py): scrape_interaction_data       *)
(***************************************************************************)
\* the if/elif chain "Major" in t, "Moderate" in t, "Minor" in t; else the raw text
SeverityOrRaw(severity_text) ==
    IF StrIn(Major, severity_text) THEN Major
    ELSE IF StrIn(Moderate, severity_text) THEN Moderate
    ELSE IF StrIn(Minor, severity_text) THEN Minor
    ELSE severity_text

\* scrape_interaction_data(drug_a, drug_b): "except Exception: ... raise"
scrape_interaction_data(drug_a, drug_b, p) ==
    IF p.add[1] # "ok" THEN StepRaise(p.add[1])
    ELSE IF p.add[2] # "ok" THEN StepRaise(p.add[2])
    ELSE IF p.button # "ok" THEN StepRaise(p.button)
    ELSE IF p.container \in {"timeout", "error"} THEN StepRaise(p.container)
    ELSE IF p.container = "none"
    THEN Raised("Exception", NoInteractionFor(drug_a, drug_b))
    ELSE IF p.severity_text = Raise \/ p.description_text = Raise
    THEN Raised("Exception", PageErrorText)
    ELSE Return(<<SeverityOrRaw(Strip(p.severity_text)), Strip(p.description_text)>>)

\* the prefix of f"No interaction found - {str(e)}"
NoInteractionPrefix == 
    <<"N","o"," ","i","n","t","e","r","a","c","t","i","o","n"," ","f","o","u","n","d",
      " ","-"," ">>

\* process_row: the (severity, text) it writes into the row
process_row(drug_a, drug_b, p) ==
    LET scraped == scrape_interaction_data(drug_a, drug_b, p)
    IN  IF scraped.kind = "return" THEN scraped.value
        ELSE <<NoneSeverity, NoInteractionPrefix \o scraped.msg>>

(***************************************************************************)
(* Tables: the DataFrame df and the CSV files.  A row is [a, b, severity,  *)
(* text]; a checkpoint row has Status too.  to_csv and read_csv are the    *)
(* conversions between a DataFrame cell and a CSV field.                   *)
(***************************************************************************)
TBD == <<"T","B","D">>

\* the fields pandas.read_csv reads as a missing value (its default na_values
\* that a severity or text cell can be: the empty field, and 'None' among them)
NaFields == {<<>>, <<"N","o","n","e">>, <<"N","A">>, <<"N","/","A">>, <<"N","a","N">>, <<"n","a","n">>, <<"n","u","l","l">>, <<"N","U","L","L">>, <<"n","/","a">>}

\* DataFrame.to_csv, one cell: a missing value is written as the empty field
ToCsvCell(v) == IF v = NaN \/ v = PyNone THEN <<>> ELSE v

\* pandas.read_csv, one field
FromCsvCell(f) == IF f \in NaFields THEN NaN ELSE f

ToCsvRow(row) ==
    [row EXCEPT !.severity = ToCsvCell(row.severity), !.text = ToCsvCell(row.text)]

FromCsvRow(row) ==
    [row EXCEPT !.severity = FromCsvCell(row.severity), !.text = FromCsvCell(row.text)]

\* df.to_csv(path, index=False): the file written
to_csv(df_) == [exists |-> TRUE, rows |-> [k \in 1..Len(df_) |-> ToCsvRow(df_[k])]]

\* pd.read_csv(path): the DataFrame read
read_csv(file) == [k \in 1..Len(file.rows) |-> FromCsvRow(file.rows[k])]

NoFile == [exists |-> FALSE, rows |-> <<>>]

(***************************************************************************)
(* process_drug_pairs of playwright_ddi_scraper.py and                     *)
(* drugbank_ddi_scraper.py; DrugBankScraper.run of scrape_drugbank_ddi.py  *)
(***************************************************************************)
\* "Save progress every 10 rows"
SaveEvery == 10

\* C13 mutant: the placeholders 'TBD' and '' are left out of the skip test
AlreadyProcessedNoPlaceholders(current_severity) ==
    /\ current_severity # NaN
    /\ current_severity \notin {ErrorSeverity, TimeoutSeverity}

\* the skip test: pd.notna(current_severity) and current_severity not in
\* ['Error', 'Timeout', 'TBD', '']
AlreadyProcessed(current_severity) ==
    /\ current_severity # NaN
    /\ current_severity \notin {ErrorSeverity, TimeoutSeverity, TBD, <<>>}

\* the Status column of the checkpoint: 'Success' if x not in [...] else 'Failed'
CheckpointStatus(s, x) ==
    IF s = "drugscom"
    THEN IF x \notin {ErrorSeverity, TimeoutSeverity, PyNone} THEN "Success" ELSE "Failed"
    ELSE IF x \notin {ErrorSeverity, TimeoutSeverity, PyNone, TBD, <<>>} THEN "Success"
         ELSE "Failed"

\* C15 mutant: the checkpoint keeps the first row of df only
CheckpointOfFirstRow(s, df_) ==
    [exists |-> TRUE,
     rows |-> [k \in 1..(IF df_ = <<>> THEN 0 ELSE 1) |->
                  [a |-> df_[k].a, b |-> df_[k].b,
                   severity |-> ToCsvCell(df_[k].severity),
                   text |-> ToCsvCell(df_[k].text),
                   Status |-> CheckpointStatus(s, df_[k].severity)]]]

\* checkpoint_data.to_csv(checkpoint_file): every row of df with its Status
CheckpointOf(s, df_) ==
    [exists |-> TRUE,
     rows |-> [k \in 1..Len(df_) |->
                  [a |-> df_[k].a, b |-> df_[k].b,
                   severity |-> ToCsvCell(df_[k].severity),
                   text |-> ToCsvCell(df_[k].text),
                   Status |-> CheckpointStatus(s, df_[k].severity)]]]

\* len(completed_rows): the checkpoint rows whose Status is 'Success'
CompletedRows(ckpt) ==
    Cardinality({k \in 1..Len(ckpt.rows) : ckpt.rows[k].Status = "Success"})

\* "Update df with checkpoint data": the rows idx < len(df) take the checkpoint's
\* severity and text as read_csv reads them
Backfill(df_, ckpt) ==
    [k \in 1..Len(df_) |->
        IF k <= Len(ckpt.rows)
        THEN [df_[k] EXCEPT !.severity = FromCsvCell(ckpt.rows[k].severity),
                            !.text = FromCsvCell(ckpt.rows[k].text)]
        ELSE df_[k]]

\* "Load checkpoint if it exists": <<start_index, df>>
LoadCheckpoint(df_, ckpt) ==
    IF ckpt.exists /\ CompletedRows(ckpt) > 0
    THEN <<CompletedRows(ckpt), Backfill(df_, ckpt)>>
    ELSE <<0, df_>>

\* "(idx + 1) % 10 == 0 or idx == total_pairs - 1" (idx is 0-based)
SaveDue(i, last) == (i + 1) % SaveEvery = 0 \/ i = last - 1

(***************************************************************************)
(* Pages: what the page operations answer.  Each family varies the answers *)
(* one group of operations reads and keeps the others at a page that       *)
(* shows an interaction.                                                   *)
(***************************************************************************)
MaxElements == 1

Captopril == <<"C","a","p","t","o","p","r","i","l">>
Amlodipine == <<"A","m","l","o","d","i","p","i","n","e">>
Losartan == <<"L","o","s","a","r","t","a","n">>

\* the drug pairs of the input table, row after row
PairSamples ==
    <<[a |-> Captopril, b |-> Amlodipine], [a |-> Losartan, b |-> Losartan]>>

StepOutcomes == {"ok", "timeout", "error"}
Failures == {"timeout", "error"}

\* all sequences over S of length 0..n
SeqsUpTo(S, n) == UNION {[1..k -> S] : k \in 0..n}

\* ---- drugs.com ----
SectionTextInteraction == 
    <<" "," ","M","o","d","e","r","a","t","e"," "," ","c","a","p","t","o","p","r","i",
      "l"," ","a","m","l","o","d","i","p","i","n","e",":"," ","m","o","n","i","t","o",
      "r"," ","b","l","o","o","d"," ","p","r","e","s","s","u","r","e"," "," ">>
SectionTextNoInteraction == 
    <<"N","o"," ","d","r","u","g"," ","<","-",">"," ","d","r","u","g"," ","i","n","t",
      "e","r","a","c","t","i","o","n","s"," ","w","e","r","e"," ","f","o","u","n","d",
      " ","i","n"," ","y","o","u","r"," ","l","i","s","t",".">>
SectionTextBlank == <<" "," ">>
SectionTexts ==
    {SectionTextInteraction, SectionTextNoInteraction, SectionTextBlank, <<>>, Raise}

ElementSamples ==
    { [class |-> 
    <<"d","d","c","-","s","t","a","t","u","s","-","l","a","b","e","l"," ","s","t","a",
      "t","u","s","-","c","a","t","e","g","o","r","y","-","m","a","j","o","r">>, text |-> <<"M","a","j","o","r">>],
      [class |-> PyNone, text |-> <<" ","m","o","d","e","r","a","t","e"," ">>],
      [class |-> <<"d","d","c","-","s","t","a","t","u","s","-","l","a","b","e","l">>, text |-> <<"M","i","n","o","r"," ","i","n","t","e","r","a","c","t","i","o","n">>],
      [class |-> <<"d","d","c","-","s","t","a","t","u","s","-","l","a","b","e","l">>, text |-> <<"U","n","k","n","o","w","n">>],
      [class |-> Raise, text |-> <<"M","a","j","o","r">>],
      [class |-> 
    <<"s","t","a","t","u","s","-","c","a","t","e","g","o","r","y","-","m","i","n","o",
      "r">>, text |-> Raise] }

SelectorResults ==
    {[raises |-> TRUE, elements |-> <<>>]}
    \cup {[raises |-> FALSE, elements |-> e] : e \in SeqsUpTo(ElementSamples, MaxElements)}

\* a selector that raises, finds nothing, or finds one element
SingleResults ==
    {[raises |-> TRUE, elements |-> <<>>], [raises |-> FALSE, elements |-> <<>>]}
    \cup {[raises |-> FALSE, elements |-> <<e>>] : e \in ElementSamples}

HtmlSamples ==
    { 
    <<"<","s","p","a","n"," ","c","l","a","s","s","=","'","S","t","a","t","u","s","-",
      "C","a","t","e","g","o","r","y","-","M","i","n","o","r","'",">","x","<","/","s",
      "p","a","n",">">>,
      <<"<","b"," ","c","l","a","s","s","=","'","s","t","a","t","u","s","-","c","a","t",
        "e","g","o","r","y","-","m","a","j","o","r","'",">","<","/","b",">">>,
      <<"<","i"," ","c","l","a","s","s","=","'","s","t","a","t","u","s","-","c","a","t",
        "e","g","o","r","y","-","m","o","d","e","r","a","t","e","'",">","<","/","i",
        ">">>,
      <<"<","d","i","v",">","n","o"," ","l","a","b","e","l","<","/","d","i","v",">">>, Raise }

\* the four fallback heading selectors and the three severity selectors
NumHeadingSelectors == 4
NumSeveritySelectors == 3

DrugsComPage ==
    [goto |-> "ok", add |-> <<"ok", "ok">>, button |-> "ok", shot |-> "ok",
     load |-> "ok", role |-> "visible",
     fallback |-> [k \in 1..NumHeadingSelectors |-> "absent"],
     h2 |-> "element", h3 |-> "none", section_class |-> "ok",
     section_text |-> SectionTextInteraction,
     scan |-> [k \in 1..NumSeveritySelectors |->
                  [raises |-> FALSE,
                   elements |-> <<[class |-> PyNone, text |-> <<" ","m","o","d","e","r","a","t","e"," ">>]>>]],
     html |-> <<"<","d","i","v",">","n","o"," ","l","a","b","e","l","<","/","d","i","v",">">>]

DrugsComPipelinePages ==
    {[DrugsComPage EXCEPT !.goto = o] : o \in Failures}
    \cup {[DrugsComPage EXCEPT !.add = a] : a \in [1..2 -> StepOutcomes]}
    \cup {[DrugsComPage EXCEPT !.button = o, !.shot = s] :
             o \in Failures, s \in StepOutcomes}
    \cup {[DrugsComPage EXCEPT !.load = o] : o \in Failures}

DrugsComHeaderPages ==
    {[DrugsComPage EXCEPT !.role = r, !.fallback = f] :
        r \in {"visible", "hidden", "raise"},
        f \in [1..NumHeadingSelectors -> {"visible", "absent", "raise"}]}

DrugsComSectionPages ==
    {[DrugsComPage EXCEPT !.h2 = x, !.h3 = y, !.section_class = c, !.section_text = t] :
        x \in {"element", "none", "raise"}, y \in {"element", "none", "raise"},
        c \in {"ok", "raise"}, t \in SectionTexts}

\* the first selector finds up to MaxElements elements, the others at most one
DrugsComScans ==
    {[k \in 1..NumSeveritySelectors |-> IF k = 1 THEN first ELSE rest[k]] :
        first \in SelectorResults,
        rest \in [1..NumSeveritySelectors -> SingleResults]}

DrugsComScanPages ==
    {[DrugsComPage EXCEPT !.scan = s] : s \in DrugsComScans}
    \cup {[DrugsComPage EXCEPT !.scan = [k \in 1..NumSeveritySelectors |-> r],
                               !.html = h, !.section_text = t] :
             r \in SelectorResults, h \in HtmlSamples,
             t \in {SectionTextInteraction, SectionTextBlank, Raise}}

\* element texts in which a severity keyword is a whole word or part of a word
WordSamples == {<<"M","i","n","o","r","i","t","y">>, <<"m","i","n","o","r">>, <<"M","a","j","o","r","i","t","y"," ","r","e","p","o","r","t">>, <<"M","a","j","o","r"," ","i","n","t","e","r","a","c","t","i","o","n">>, <<"U","n","k","n","o","w","n">>}

DrugsComWordPages ==
    {[DrugsComPage EXCEPT
         !.scan = [k \in 1..NumSeveritySelectors |->
                      IF k = 1 THEN [raises |-> FALSE,
                                     elements |-> <<[class |-> c, text |-> t]>>]
                      ELSE [raises |-> FALSE, elements |-> <<>>]]] :
        c \in {PyNone, <<"d","d","c","-","s","t","a","t","u","s","-","l","a","b","e","l">>}, t \in WordSamples}

\* pages on which saving the diagnostic snapshot fails or succeeds
DrugsComSnapshotPages ==
    {[DrugsComPage EXCEPT !.shot = o, !.h2 = x, !.section_text = t,
                          !.scan = [k \in 1..NumSeveritySelectors |-> r], !.html = h] :
        o \in StepOutcomes, x \in {"element", "none", "raise"},
        t \in {SectionTextInteraction, SectionTextBlank, <<>>, Raise},
        r \in {[raises |-> TRUE, elements |-> <<>>], [raises |-> FALSE, elements |-> <<>>]},
        h \in HtmlSamples}

DrugsComPages ==
    DrugsComPipelinePages \cup DrugsComHeaderPages \cup DrugsComSectionPages
        \cup DrugsComScanPages \cup DrugsComSnapshotPages \cup DrugsComWordPages

\* ---- DrugBank ----
NumButtonSelectors == 6

DescriptionLong == 
    <<"C","a","p","t","o","p","r","i","l"," ","m","a","y"," ","i","n","c","r","e","a",
      "s","e"," ","t","h","e"," ","h","y","p","o","t","e","n","s","i","v","e"," ","a",
      "c","t","i","v","i","t","i","e","s"," ","o","f"," ","A","m","l","o","d","i","p",
      "i","n","e",".">>
DescriptionShort == <<" ","s","h","o","r","t"," ">>
ContainerLong == 
    <<"M","a","j","o","r"," "," ","C","a","p","t","o","p","r","i","l"," ","m","a","y",
      " ","i","n","c","r","e","a","s","e"," ","t","h","e"," ","h","y","p","o","t","e",
      "n","s","i","v","e"," ","a","c","t","i","v","i","t","i","e","s"," ","o","f"," ",
      "A","m","l","o","d","i","p","i","n","e",".">>
DivBlank == [k \in 1..(MinDivLen + 1) |-> " "]

SeverityTextSamples == {<<"M","a","j","o","r">>, <<" ","m","o","d","e","r","a","t","e"," ">>, <<"M","I","N","O","R">>, <<"U","n","k","n","o","w","n">>, Raise}
SeverityElementSamples == {<<"S","e","v","e","r","i","t","y",":"," ","M","o","d","e","r","a","t","e">>, <<"n","/","a">>, Raise}
ContentSamples == {
    <<"<","h","t","m","l",">","<","h","5",">","m","i","n","o","r","<","/","h","5",">",
      "<","/","h","t","m","l",">">>, <<"<","h","t","m","l",">","n","o","t","h","i","n","g","<","/","h","t","m","l",">">>, Raise}
DivSamples == {DivBlank, ContainerLong, DescriptionShort, Raise}

ElementLists(S) ==
    {[raises |-> TRUE, elements |-> <<>>]}
    \cup {[raises |-> FALSE, elements |-> e] : e \in SeqsUpTo(S, MaxElements)}

DrugBankPage ==
    [goto |-> "ok", add |-> <<"ok", "ok">>,
     click |-> [k \in 1..NumButtonSelectors |-> "ok"], shot |-> "ok", load |-> "ok",
     container |-> "present", severity_text |-> <<"M","a","j","o","r">>,
     severity_elements |-> [raises |-> FALSE, elements |-> <<>>],
     content |-> <<"<","h","t","m","l",">","n","o","t","h","i","n","g","<","/","h","t","m","l",">">>,
     description_text |-> DescriptionLong, container_text |-> ContainerLong,
     divs |-> [raises |-> FALSE, elements |-> <<>>]]

\* the first n strategies of _click_check_button fail with outcome o
ClickFailing(n, o) == [k \in 1..NumButtonSelectors |-> IF k <= n THEN o ELSE "ok"]

DrugBankPipelinePages ==
    {[DrugBankPage EXCEPT !.goto = o] : o \in Failures}
    \cup {[DrugBankPage EXCEPT !.add = a] : a \in [1..2 -> StepOutcomes]}
    \cup {[DrugBankPage EXCEPT !.click = ClickFailing(n, o), !.shot = s] :
             n \in 1..NumButtonSelectors, o \in Failures, s \in StepOutcomes}
    \cup {[DrugBankPage EXCEPT !.load = o] : o \in Failures}
    \cup {[DrugBankPage EXCEPT !.container = c, !.shot = s] :
             c \in {"none", "timeout", "error"}, s \in StepOutcomes}

DrugBankSeverityPages ==
    {[DrugBankPage EXCEPT !.severity_text = t, !.severity_elements = e, !.content = c] :
        t \in SeverityTextSamples, e \in ElementLists(SeverityElementSamples),
        c \in ContentSamples}

DrugBankDescriptionPages ==
    {[DrugBankPage EXCEPT !.description_text = t, !.container_text = c, !.divs = d] :
        t \in {DescriptionLong, DescriptionShort, Raise},
        c \in {ContainerLong, DescriptionShort, Raise},
        d \in ElementLists(DivSamples)}

\* a result container that shows no severity word, on pages whose severity
\* words are in the page around it
ContainerPlain == 
    <<"U","n","k","n","o","w","n"," "," ","C","a","p","t","o","p","r","i","l"," ","m",
      "a","y"," ","i","n","c","r","e","a","s","e"," ","t","h","e"," ","h","y","p","o",
      "t","e","n","s","i","v","e"," ","a","c","t","i","v","i","t","i","e","s"," ","o",
      "f"," ","A","m","l","o","d","i","p","i","n","e",".">>
ContentOutside == 
    <<"<","h","t","m","l",">","<","n","a","v",">","M","a","j","o","r"," ","d","e","p",
      "r","e","s","s","i","o","n","<","/","n","a","v",">","<","d","i","v"," ","c","l",
      "a","s","s","=","'","f","o","r","m","-","r","o","w"," ","m","b","-","3","'",">",
      "U","n","k","n","o","w","n","<","/","d","i","v",">","<","/","h","t","m","l",">">>

DrugBankScopePages ==
    {[DrugBankPage EXCEPT !.severity_text = t, !.severity_elements = e, !.content = c,
                          !.container_text = ContainerPlain] :
        t \in {<<"U","n","k","n","o","w","n">>, Raise},
        e \in {[raises |-> FALSE, elements |-> <<>>],
               [raises |-> FALSE, elements |-> <<<<"S","e","v","e","r","i","t","y",":"," ","M","o","d","e","r","a","t","e">>>>]},
        c \in ContentSamples \cup {ContentOutside}}

DrugBankWordPages ==
    {[DrugBankPage EXCEPT !.severity_text = t, !.severity_elements = e,
                          !.container_text = ContainerPlain] :
        t \in WordSamples \cup {Raise},
        e \in {[raises |-> FALSE, elements |-> <<>>]}
              \cup {[raises |-> FALSE, elements |-> <<w>>] : w \in WordSamples}}

\* every pattern of strategies that click and strategies that fail
DrugBankClickPages ==
    {[DrugBankPage EXCEPT !.click = c] : c \in [1..NumButtonSelectors -> {"ok", "error"}]}

\* divs whose text is longer than 50 characters through white space only
DivBlankLong == 
    <<" "," "," "," "," "," "," "," "," "," "," "," "," "," "," "," "," "," "," "," ",
      " "," "," "," "," "," "," "," "," "," "," "," "," "," "," "," "," "," "," "," ",
      " "," "," "," "," "," "," "," "," "," "," ">>
DivPadded == 
    <<" "," "," "," "," "," "," "," "," "," "," "," "," "," "," "," "," "," "," "," ",
      " "," "," "," "," ","n","/","a"," "," "," "," "," "," "," "," "," "," "," "," ",
      " "," "," "," "," "," "," "," "," "," "," "," "," ">>

DrugBankDivPages ==
    {[DrugBankPage EXCEPT !.description_text = t, !.container_text = t,
                          !.divs = [raises |-> FALSE, elements |-> e]] :
        t \in {DescriptionShort, Raise},
        e \in {<<DivBlankLong>>, <<DivPadded>>, <<DivBlank, DivPadded>>,
               <<DivBlank, ContainerLong>>}}

DrugBankPages ==
    DrugBankPipelinePages \cup DrugBankSeverityPages \cup DrugBankDescriptionPages
        \cup DrugBankScopePages \cup DrugBankWordPages \cup DrugBankClickPages
        \cup DrugBankDivPages

\* ---- scrape_drugbank_ddi.py ----
LegacyPage ==
    [add |-> <<"ok", "ok">>, button |-> "ok", container |-> "present",
     severity_text |-> <<"M","a","j","o","r">>, description_text |-> DescriptionLong]

LegacyPages ==
    {[LegacyPage EXCEPT !.add = a] : a \in [1..2 -> StepOutcomes]}
    \cup {[LegacyPage EXCEPT !.button = o] : o \in Failures}
    \cup {[LegacyPage EXCEPT !.container = c] : c \in {"none", "timeout", "error"}}
    \cup {[LegacyPage EXCEPT !.severity_text = t, !.description_text = d] :
             t \in SeverityTextSamples, d \in {DescriptionLong, DescriptionShort, Raise}}

Sites == {"drugscom", "drugbank"}
Pages(s) == IF s = "drugscom" THEN DrugsComPages ELSE DrugBankPages

(***************************************************************************)
(* Inputs of the matcher                                                   *)
(***************************************************************************)
MaxStrLen == 2
MaxOptions == 2

Alphabet == {"a", "b"}

\* all strings over Alphabet of length 1..MaxStrLen
GeneratedTexts == UNION {[1..k -> Alphabet] : k \in 1..MaxStrLen}

Lisinopril == <<"L", "i", "s", "i", "n", "o", "p", "r", "i", "l">>
Lisinopril10mgTablet ==
    <<"L", "i", "s", "i", "n", "o", "p", "r", "i", "l", " ", "1", "0", "m", "g",
      " ", "t", "a", "b", "l", "e", "t">>
Lisinoprilum == <<"L", "i", "s", "i", "n", "o", "p", "r", "i", "l", "u", "m">>

\* texts with upper case, qualifiers in brackets, inner and outer blanks
SampleTexts ==
    { Lisinopril, Lisinopril10mgTablet, Lisinoprilum,
      <<"A", "b">>, <<"a", "b", "a">>, <<"b", " ", "(", "a", ")">>,
      <<"(", "b", ")">>, <<"a", "[", "b", "]">>, <<" ", "a", "a", " ">> }

TypedNames == GeneratedTexts \cup SampleTexts
\* the option lists: up to MaxOptions generated texts, or one or two sample texts
OptionLists ==
    UNION {[1..k -> GeneratedTexts] : k \in 0..MaxOptions}
        \cup UNION {[1..k -> SampleTexts] : k \in 1..2}

(***************************************************************************)
(* Specification of the matcher: one call of _select_best_match            *)
(***************************************************************************)
\* the variables of check_interaction when no pair is being checked
CheckIdle ==
    /\ site = "none"
    /\ pair = <<>>
    /\ page = <<>>
    /\ extracted = <<>>
    /\ debug_files = NoDebugFiles /\ clicks = <<>>
    /\ result = <<>>

\* the variables of the batch runner when no batch runs
BatchIdle ==
    /\ table0 = <<>>
    /\ oracle = <<>>
    /\ in_place = FALSE
    /\ input_file = <<>>
    /\ output_file = <<>>
    /\ checkpoint_file = <<>>
    /\ df = <<>>
    /\ idx = 0
    /\ calls = <<>>
    /\ start_row = 0
    /\ end_row = 0
    /\ pc = "idle"
    /\ run = 0
    /\ ended = <<>>
    /\ input_kind = "none"
    /\ sessions = 0 /\ closes = 0
    /\ carried = <<>>
    /\ exit_status = <<>>

\* the variables of the calls checked on their own, when none is
SimIdle ==
    /\ string1 = <<>>
    /\ string2 = <<>>
    /\ similarity_score = <<>>

CallIdle ==
    /\ delay_arg = 0
    /\ random_delay_ms = 0
    /\ total_wait = <<>>
    /\ commits = <<>>
    /\ SimIdle

\* the variables of the matcher when no dropdown is being matched
MatchIdle ==
    /\ drug_name = <<>>
    /\ options = <<>>
    /\ best_match = <<>>
    /\ widget = <<>>
    /\ CallIdle

InitMatch ==
    /\ drug_name \in TypedNames
    /\ options \in OptionLists
    /\ best_match = <<>>
    /\ widget = <<>>
    /\ CallIdle
    /\ CheckIdle
    /\ BatchIdle

SelectBestMatch ==
    /\ best_match = <<>>
    /\ best_match' = <<select_best_match(drug_name, options)>>
    /\ UNCHANGED <<drug_name, options, widget, callVars, checkVars, batchVars>>

NextMatch == SelectBestMatch

SpecMatch == InitMatch /\ [][NextMatch]_vars

(***************************************************************************)
(* Specification of one pair: check_interaction, and the result extractor  *)
(* called on the results page, for every page of the families above        *)
(***************************************************************************)
\* every step before the extractor succeeded, so the extractor is called
PipelineOk(s, p) ==
    /\ p.goto = "ok"
    /\ p.add = <<"ok", "ok">>
    /\ IF s = "drugscom" THEN p.button = "ok" ELSE click_check_button(p).kind = "return"
    /\ p.load = "ok"

\* the result extractor of site s
Extractor(s, drug1, drug2, p) ==
    IF s = "drugscom" THEN extract_severity(p)
    ELSE extract_severity_and_text(drug1, drug2, p)

\* The diagnostic snapshots the result extractor of site s saves on page p.
\* DrugBank's _extract_severity_and_text saves one when the container is found,
\* one when it is not and one more in its except clause.
ExtractorDebugInfo(s, p) ==
    IF s = "drugscom" THEN debug_info(p)
    ELSE IF p.container \in {"timeout", "error"}
    THEN save_debug_info(p, "extraction_error")
    ELSE IF p.container = "none"
    THEN save_debug_info(p, "no_interaction") \o save_debug_info(p, "extraction_error")
    ELSE save_debug_info(p, "interaction")

\* The diagnostic snapshots one check_interaction call saves: the one of the
\* button step when the button cannot be clicked, else those of the extractor
CheckDebugInfo(s, p) ==
    IF p.goto # "ok" \/ p.add # <<"ok", "ok">> THEN <<>>
    ELSE IF s = "drugscom" /\ p.button # "ok"
    THEN (IF p.shot = "ok" THEN <<"error_screenshot">> ELSE <<>>)
    ELSE IF s = "drugbank" /\ click_check_button(p).kind = "raise"
    THEN save_debug_info(p, "button_click_error")
    ELSE IF p.load # "ok" THEN <<>>
    ELSE ExtractorDebugInfo(s, p)

InitCheck ==
    /\ site \in Sites
    /\ pair \in {PairSamples[k] : k \in 1..Len(PairSamples)}
    /\ page \in Pages(site)
    /\ extracted = <<>>
    /\ debug_files = NoDebugFiles /\ clicks = <<>>
    /\ result = <<>>
    /\ MatchIdle
    /\ BatchIdle

Extract ==
    /\ extracted = <<>>
    /\ PipelineOk(site, page)
    /\ extracted' = <<Extractor(site, pair.a, pair.b, page)>>
    /\ debug_files' = [debug_files EXCEPT !.extractor = ExtractorDebugInfo(site, page)]
    /\ UNCHANGED <<site, pair, page, result, clicks, matchVars, batchVars>>

CheckInteraction ==
    /\ result = <<>>
    /\ result' = <<check_interaction(site, pair.a, pair.b, page)>>
    /\ debug_files' = [debug_files EXCEPT !.check_interaction = CheckDebugInfo(site, page)]
    /\ UNCHANGED <<site, pair, page, extracted, clicks, matchVars, batchVars>>

\* one call of DrugBank's _click_check_button on the page
ClickCheckButton ==
    /\ site = "drugbank"
    /\ clicks = <<>>
    /\ clicks' = <<[out |-> click_check_button(page), clicked |-> ClickLoop(page, 1)]>>
    /\ UNCHANGED <<site, pair, page, extracted, debug_files, result, matchVars, batchVars>>

NextCheck == Extract \/ CheckInteraction \/ ClickCheckButton

SpecCheck == InitCheck /\ [][NextCheck]_vars

(***************************************************************************)
(* _add_drug of both scrapers.  A page p records what each page operation  *)
(* of the entry step answers; w is the sequence of drugs the widget has    *)
(* registered.  The outcome is [out, widget].                              *)
(***************************************************************************)
NumSearchInputSelectors == 2
NumDropdownSelectors == 4

\* 'Could not find search input field with any known selector'
NoSearchInputText == 
    <<"C","o","u","l","d"," ","n","o","t"," ","f","i","n","d"," ","s","e","a","r","c",
      "h"," ","i","n","p","u","t"," ","f","i","e","l","d"," ","w","i","t","h"," ","a",
      "n","y"," ","k","n","o","w","n"," ","s","e","l","e","c","t","o","r">>

\* "for selector in search_input_selectors": the first selector that becomes
\* visible, 0 when none does
RECURSIVE SearchInputLoop(_, _)
SearchInputLoop(k, p) ==
    IF k > NumSearchInputSelectors THEN 0
    ELSE IF p.inputs[k] = "ok" THEN k
    ELSE SearchInputLoop(k + 1, p)

\* "await self.page.keyboard.press('Enter')": the page registers the typed drug
\* when it accepts the key, and nothing when it does not; the press itself
\* returns normally in both cases
PressEnter(name, p, w) ==
    IF p.enter = "accepted"
    THEN [out |-> Return(<<>>), widget |-> Append(w, name), commits |-> <<"enter">>]
    ELSE IF p.enter = "ignored"
    THEN [out |-> Return(<<>>), widget |-> w, commits |-> <<"enter">>]
    ELSE [out |-> StepRaise(p.enter), widget |-> w, commits |-> <<>>]

\* PlaywrightDDIScraper._add_drug
add_drug_drugscom(name, p, w) ==
    IF SearchInputLoop(1, p) = 0
    THEN [out |-> Raised("Exception", NoSearchInputText), widget |-> w, commits |-> <<>>]
    ELSE IF p.fill # "ok" THEN [out |-> StepRaise(p.fill), widget |-> w, commits |-> <<>>]
    ELSE IF p.type # "ok" THEN [out |-> StepRaise(p.type), widget |-> w, commits |-> <<>>]
    ELSE PressEnter(name, p, w)

\* "for element in elements": the stripped texts of the elements whose
\* inner_text() does not raise and is not blank
OptionTexts(elements) ==
    SelectSeq([j \in 1..Len(elements) |-> Strip(elements[j])],
              LAMBDA t : t # <<>> /\ t # Raise)

\* "for selector in dropdown_selectors": the options of the first selector
\* that has any; a raising query_selector_all ends the search
RECURSIVE DropdownLoop(_, _, _)
DropdownLoop(k, p, dropdown_options) ==
    IF k > NumDropdownSelectors THEN Return(dropdown_options)
    ELSE IF p.query[k].status # "ok" THEN StepRaise(p.query[k].status)
    ELSE IF p.query[k].elements = <<>> THEN DropdownLoop(k + 1, p, dropdown_options)
    ELSE IF dropdown_options \o OptionTexts(p.query[k].elements) # <<>>
    THEN Return(dropdown_options \o OptionTexts(p.query[k].elements))
    ELSE DropdownLoop(k + 1, p, dropdown_options)

\* DrugBankDDIScraper._find_best_dropdown_match: [value, widget, commits], value
\* the selected option text or None.  The except clause answers None also when
\* the wait after the click raises, the option being clicked already.
find_best_dropdown_match(name, p, w) ==
    LET found == DropdownLoop(1, p, <<>>)
        k == select_best_match(name, found.value)
    IN  IF found.kind = "raise" THEN [value |-> PyNone, widget |-> w, commits |-> <<>>]
        ELSE IF found.value = <<>> THEN [value |-> PyNone, widget |-> w, commits |-> <<>>]
        ELSE IF k = 0 THEN [value |-> PyNone, widget |-> w, commits |-> <<>>]
        ELSE IF p.click # "ok" THEN [value |-> PyNone, widget |-> w, commits |-> <<>>]
        ELSE IF p.wait = "ok"
        THEN [value |-> found.value[k], widget |-> Append(w, found.value[k]),
              commits |-> <<"click">>]
        ELSE [value |-> PyNone, widget |-> Append(w, found.value[k]),
              commits |-> <<"click">>]

\* DrugBankDDIScraper._add_drug
add_drug_drugbank(name, p, w) ==
    IF p.input # "ok" THEN [out |-> StepRaise(p.input), widget |-> w, commits |-> <<>>]
    ELSE IF p.fill # "ok" THEN [out |-> StepRaise(p.fill), widget |-> w, commits |-> <<>>]
    ELSE IF p.type # "ok" THEN [out |-> StepRaise(p.type), widget |-> w, commits |-> <<>>]
    ELSE LET best_match_ == find_best_dropdown_match(name, p, w)
             pressed == PressEnter(name, p, best_match_.widget)
         IN  IF best_match_.value # PyNone
             THEN [out |-> Return(<<>>), widget |-> best_match_.widget,
                   commits |-> best_match_.commits]
             ELSE [pressed EXCEPT !.commits = best_match_.commits \o pressed.commits]

\* _add_drug of site s
add_drug_widget(s, name, p, w) ==
    IF s = "drugscom" THEN add_drug_drugscom(name, p, w)
    ELSE add_drug_drugbank(name, p, w)

\* ---- pages of the entry step ----
EnterOutcomes == {"accepted", "ignored", "error", "timeout"}

DrugsComAddPages ==
    [inputs : [1..NumSearchInputSelectors -> {"ok", "timeout"}],
     fill : StepOutcomes, type : StepOutcomes, enter : EnterOutcomes]

\* what query_selector_all answers for one selector: the inner_text() of each
\* element found (Raise when it raises), or a raising query
QueryResults ==
    {[status |-> "ok", elements |-> e] :
        e \in {<<>>, <<Lisinopril10mgTablet, Lisinopril>>, <<Raise>>, << <<" ">> >>}}
    \cup {[status |-> "error", elements |-> <<>>]}

NoOptions == [status |-> "ok", elements |-> <<>>]

DrugBankAddPage ==
    [input |-> "ok", fill |-> "ok", type |-> "ok",
     query |-> [k \in 1..NumDropdownSelectors |-> NoOptions],
     click |-> "ok", wait |-> "ok", enter |-> "accepted"]

DrugBankAddPages ==
    {[DrugBankAddPage EXCEPT !.input = i, !.fill = f, !.type = t] :
        i \in StepOutcomes, f \in StepOutcomes, t \in StepOutcomes}
    \cup {[DrugBankAddPage EXCEPT !.query = [k \in 1..NumDropdownSelectors |->
                                               IF k = 1 THEN q1
                                               ELSE IF k = 2 THEN q2 ELSE q4],
                                  !.click = c, !.enter = e] :
             q1 \in QueryResults, q2 \in QueryResults, q4 \in QueryResults,
             c \in {"ok", "error", "timeout"}, e \in EnterOutcomes}
    \cup {[DrugBankAddPage EXCEPT !.query = [k \in 1..NumDropdownSelectors |->
                                               IF k = 1 THEN q1 ELSE NoOptions],
                                  !.wait = "error", !.enter = e] :
             q1 \in QueryResults, e \in EnterOutcomes}

AddPages(s) == IF s = "drugscom" THEN DrugsComAddPages ELSE DrugBankAddPages

AddNames == {[a |-> Lisinopril, b |-> Captopril], [a |-> Amlodipine, b |-> Amlodipine]}

(***************************************************************************)
(* Specification of the entry step: the two _add_drug calls of             *)
(* check_interaction on a freshly loaded widget                            *)
(***************************************************************************)
InitAdd ==
    /\ site \in Sites
    /\ pair \in AddNames
    /\ page \in AddPages(site)
    /\ widget = <<>>
    /\ result = <<>>
    /\ extracted = <<>>
    /\ debug_files = NoDebugFiles /\ clicks = <<>>
    /\ drug_name = <<>>
    /\ options = <<>>
    /\ best_match = <<>>
    /\ CallIdle
    /\ BatchIdle

\* "await self._add_drug(drug1)", then "await self._add_drug(drug2)" when the
\* first call returned
AddDrug ==
    /\ Len(result) < 2
    /\ \A n \in 1..Len(result) : result[n].kind = "return"
    /\ \E added \in {add_drug_widget(site, IF result = <<>> THEN pair.a ELSE pair.b,
                                     page, widget)} :
          /\ result' = Append(result, added.out)
          /\ widget' = added.widget
          /\ commits' = Append(commits, added.commits)
    /\ UNCHANGED <<site, pair, page, extracted, debug_files, clicks, drug_name, options,
                   best_match, delay_arg, random_delay_ms, total_wait, simVars, batchVars>>

NextAdd == AddDrug

SpecAdd == InitAdd /\ [][NextAdd]_vars

(***************************************************************************)
(* The rate limit of the drugs.com runner.  Delays are in milliseconds.    *)
(***************************************************************************)
MinDelayMs == 3000
DefaultDelayMs == 3500
RandomDelayMin == 1000
RandomDelayMax == 2000
BaseDelayMs == 2000

\* __init__: self.delay_between_requests = max(delay_between_requests, 3.0)
ClampDelay(delay_between_requests) ==
    IF delay_between_requests > MinDelayMs THEN delay_between_requests ELSE MinDelayMs

\* main and process_drug_pairs: args.delay is parsed and not passed on; the
\* scraper is built with delay_between_requests=3.5
ScraperDelay(arg) == ClampDelay(DefaultDelayMs)

\* "Rate limiting": the milliseconds waited after the pair of row i (0-based):
\* the random delay, and the configured delay less 2 seconds
RateLimitWait(i, total_pairs, delay_between_requests, draw) ==
    IF i < total_pairs - 1
    THEN draw + (IF delay_between_requests > BaseDelayMs
                 THEN delay_between_requests - BaseDelayMs ELSE 0)
    ELSE 0

\* ---- inputs ----
MaxPairs == 3
DelayArgs == {0, 1000, 2000, 2500, 3000, 3500, 4000, 10000}
RandomDraws == {RandomDelayMin, 1250, 1500, 1750, RandomDelayMax}

(***************************************************************************)
(* Specification of the rate limit: the wait after one processed row       *)
(***************************************************************************)
InitWait ==
    /\ delay_arg \in DelayArgs
    /\ random_delay_ms \in RandomDraws
    /\ total_wait = <<>>
    /\ commits = <<>>
    /\ SimIdle
    /\ start_row = 0
    /\ end_row = MaxPairs
    /\ idx \in 0..(MaxPairs - 1)
    /\ site = "drugscom"
    /\ pair = <<>> /\ page = <<>> /\ extracted = <<>> /\ debug_files = NoDebugFiles /\ clicks = <<>> /\ result = <<>>
    /\ drug_name = <<>> /\ options = <<>> /\ best_match = <<>> /\ widget = <<>>
    /\ table0 = <<>> /\ oracle = <<>> /\ in_place = FALSE
    /\ input_file = <<>> /\ output_file = <<>> /\ checkpoint_file = <<>>
    /\ df = <<>> /\ calls = <<>> /\ pc = "idle" /\ run = 0 /\ ended = <<>>
    /\ input_kind = "none" /\ sessions = 0 /\ closes = 0 /\ carried = <<>> /\ exit_status = <<>>

\* the waits of one iteration of the row loop, after the checkpoint is saved
RateLimit ==
    /\ total_wait = <<>>
    /\ total_wait' = <<RateLimitWait(idx, end_row, ScraperDelay(delay_arg),
                                     random_delay_ms)>>
    /\ UNCHANGED <<delay_arg, random_delay_ms, commits, simVars, drug_name, options,
                   best_match, widget,
                   checkVars, batchVars>>

NextWait == RateLimit

SpecWait == InitWait /\ [][NextWait]_vars

(***************************************************************************)
(* Specification of the batch runners: runs of process_drug_pairs          *)
(* (drugs.com, DrugBank) and of DrugBankScraper.run over an input table,   *)
(* interrupted or not, and started again                                   *)
(***************************************************************************)
NumRows == 2
MaxRuns == 2

Runners == {"drugscom", "drugbank", "legacy"}

\* what the site shows for a pair
Answers(s) ==
    IF s = "legacy" THEN {"interaction", "no_interaction", "unlabelled", "no_button"}
    ELSE {"interaction", "no_interaction", "no_button", "nav_timeout"}

Unknown == <<"U","n","k","n","o","w","n">>

\* the page of runner s that shows answer w
BatchPage(s, w) ==
    IF s = "drugscom"
    THEN CASE w = "interaction" -> DrugsComPage
           [] w = "no_interaction" ->
                [DrugsComPage EXCEPT !.section_text = SectionTextNoInteraction]
           [] w = "no_button" -> [DrugsComPage EXCEPT !.button = "error"]
           [] OTHER -> [DrugsComPage EXCEPT !.goto = "timeout"]
    ELSE IF s = "drugbank"
    THEN CASE w = "interaction" -> DrugBankPage
           [] w = "no_interaction" -> [DrugBankPage EXCEPT !.container = "none"]
           [] w = "no_button" ->
                [DrugBankPage EXCEPT !.click = ClickFailing(NumButtonSelectors, "error")]
           [] OTHER -> [DrugBankPage EXCEPT !.goto = "timeout"]
    ELSE CASE w = "interaction" -> LegacyPage
           [] w = "no_interaction" -> [LegacyPage EXCEPT !.container = "none"]
           [] w = "no_button" -> [LegacyPage EXCEPT !.button = "timeout"]
           [] OTHER -> [LegacyPage EXCEPT !.severity_text = Unknown]

\* the drug pair of row k (1-based)
PairOfRow(k) == PairSamples[((k - 1) % Len(PairSamples)) + 1]

KnownText == <<"k","n","o","w","n">>

\* the input tables: a fresh table (severity and text empty) or a template
\* (both 'TBD'), with at most one row already filled in
InitialTables ==
    {[k \in 1..NumRows |->
        [a |-> PairOfRow(k).a, b |-> PairOfRow(k).b,
         severity |-> IF k = filled THEN Minor ELSE blank,
         text |-> IF k = filled THEN KnownText ELSE blank]] :
        blank \in {<<>>, TBD}, filled \in 0..NumRows}

\* what the input path can name for runner s.  DrugBank's process_drug_pairs
\* reads every path with read_csv and has no notion of an unsupported format;
\* DrugBankScraper.run is given tables only.
InputKinds(s) ==
    IF s = "drugscom" THEN {"table", "missing", "unreadable", "unsupported", "no_columns"}
    ELSE IF s = "drugbank" THEN {"table", "missing", "unreadable", "no_columns"}
    ELSE {"table"}

\* the input file of each kind
InputFileOf(kind, table) ==
    IF kind = "missing" THEN NoFile ELSE [exists |-> TRUE, rows |-> table]

\* the content of an input the runner rejects
RejectedTables == {t \in InitialTables : \A k \in 1..NumRows : t[k].severity = <<>>}

\* main: "if not Path(args.input_file).exists(): return"
InputExists(kind) == kind # "missing"

\* process_drug_pairs: the read of the input file, "except Exception: return"
\* and "Unsupported file format ... return"
InputRead(s, kind) ==
    /\ kind # "unreadable"
    /\ s = "drugscom" => kind # "unsupported"

\* process_drug_pairs: "Validate columns ... return"
ColumnsValid(kind) == kind # "no_columns"

\* C19 mutant: the columns are not validated
InputAcceptedUnvalidated(s, kind) == InputExists(kind) /\ InputRead(s, kind)

\* main and process_drug_pairs go on to the checkpoint and the browser
InputAccepted(s, kind) ==
    InputExists(kind) /\ InputRead(s, kind) /\ ColumnsValid(kind)

\* C35 mutant: the browser is closed at the end of the try body only, with no
\* finally clause
ClosesAfterWithoutFinally(outcome, n) == IF outcome = "done" THEN n + 1 ELSE n

\* "finally: await scraper.close()" / "finally: await self.close_browser()":
\* the number of sessions closed when the run has left its try statement with
\* the given outcome, n having been closed before
ClosesAfter(outcome, n) == n + 1

\* the file the runner writes its table to
OutputFile == IF in_place THEN input_file ELSE output_file

\* df.to_csv(output_file, index=False)
SaveOutput(df_) ==
    IF in_place
    THEN input_file' = to_csv(df_) /\ output_file' = output_file
    ELSE output_file' = to_csv(df_) /\ input_file' = input_file

Init ==
    /\ site \in Runners
    /\ input_kind \in InputKinds(site)
    /\ table0 \in (IF input_kind = "table" THEN InitialTables ELSE RejectedTables)
    /\ oracle \in (IF input_kind = "table" THEN [1..NumRows -> Answers(site)]
                   ELSE {[k \in 1..NumRows |-> "interaction"]})
    /\ in_place \in (IF site = "legacy" THEN {FALSE} ELSE BOOLEAN)
    /\ input_file = InputFileOf(input_kind, table0)
    /\ sessions = 0 /\ closes = 0
    /\ carried = <<>>
    /\ exit_status = <<>>
    /\ output_file = NoFile
    /\ checkpoint_file = NoFile
    /\ df = <<>>
    /\ idx = 0
    /\ calls = <<>>
    /\ start_row = 0
    /\ end_row = 0
    /\ pc = "idle"
    /\ run = 0
    /\ ended = <<>>
    /\ pair = <<>>
    /\ page = <<>>
    /\ extracted = <<>>
    /\ debug_files = NoDebugFiles /\ clicks = <<>>
    /\ result = <<>>
    /\ MatchIdle

\* The widget when the entry step of a pair begins.  check_interaction of
\* drugs.com and DrugBank loads the checker page first, which empties the
\* widget (a failed load ends the call before any entry); scrape_interaction_data
\* types into the page that setup_browser loaded once.
WidgetAtEntry(s, p, w) ==
    IF s = "legacy" THEN w ELSE <<>>

\* The widget after the pair: each drug whose entry went through is registered
WidgetAfter(s, drug1, drug2, p, w) ==
    IF s # "legacy" /\ p.goto # "ok" THEN w
    ELSE WidgetAtEntry(s, p, w)
            \o (IF p.add[1] = "ok" THEN <<drug1>> ELSE <<>>)
            \o (IF p.add[1] = "ok" /\ p.add[2] = "ok" THEN <<drug2>> ELSE <<>>)

\* process_drug_pairs / run up to the row loop: read the input, load the
\* checkpoint (not DrugBankScraper.run), start the browser
StartRun ==
    /\ pc \in {"idle", "stopped", "done"}
    /\ run < MaxRuns
    /\ InputAccepted(site, input_kind)
    /\ run' = run + 1
    /\ sessions' = sessions + 1
    /\ widget' = <<>>
    /\ carried' = <<>>
    /\ \E loaded \in {IF site = "legacy" THEN <<0, read_csv(input_file)>>
                       ELSE LoadCheckpoint(read_csv(input_file), checkpoint_file)} :
          /\ idx' = loaded[1]
          /\ df' = loaded[2]
          /\ end_row' = Len(loaded[2])
          /\ start_row' = 0
          /\ calls' = [k \in 1..Len(loaded[2]) |-> 0]
    /\ pc' = "loop"
    /\ UNCHANGED <<table0, oracle, in_place, fileVars, ended, site, pair, page,
                   extracted, debug_files, clicks, result, drug_name, options,
                   best_match, callVars, input_kind, exit_status, closes>>

\* main and process_drug_pairs on an input that is not accepted: an error is
\* logged and both return, so asyncio.run(main()) ends normally
RejectInput ==
    /\ pc \in {"idle", "stopped", "done"}
    /\ run < MaxRuns
    /\ ~InputAccepted(site, input_kind)
    /\ run' = run + 1
    /\ pc' = "done"
    /\ ended' = Append(ended, "rejected")
    /\ exit_status' = Append(exit_status, 0)
    /\ UNCHANGED <<table0, oracle, in_place, fileVars, df, idx, calls, start_row, end_row, site,
                   pair, page, extracted, debug_files, clicks, result, matchVars, input_kind, sessions, closes,
                   carried>>

\* C20 mutant: a row that came back Error or Timeout is checked again
NextIndexRetrying(i, severity) ==
    IF severity \in {ErrorSeverity, TimeoutSeverity} THEN i ELSE i + 1

\* "for idx in range(start_index, total_pairs)": the index after row i, whatever
\* severity check_interaction answered for it
NextIndex(i, severity) == i + 1

\* one iteration of the row loop of process_drug_pairs that skips the row
SkipRow ==
    /\ pc = "loop" /\ idx < end_row
    /\ site # "legacy"
    /\ AlreadyProcessed(df[idx + 1].severity)
    /\ idx' = idx + 1
    /\ UNCHANGED <<table0, oracle, in_place, fileVars, df, calls, start_row, end_row, pc, run,
                   ended, site, pair, page, extracted, debug_files, clicks, result, matchVars,
                   input_kind, sessions, closes, carried, exit_status>>

\* one iteration of the row loop of process_drug_pairs that checks the pair:
\* check_interaction, the row of df, the output file when due, the checkpoint,
\* the rate-limit wait (which raises when the browser is gone)
ProcessRow ==
    /\ pc = "loop" /\ idx < end_row
    /\ site # "legacy"
    /\ ~AlreadyProcessed(df[idx + 1].severity)
    /\ calls' = [calls EXCEPT ![idx + 1] = @ + 1]
    /\ widget' = WidgetAfter(site, Strip(df[idx + 1].a), Strip(df[idx + 1].b),
                          BatchPage(site, oracle[idx + 1]), widget)
    /\ carried' = carried \o WidgetAtEntry(site, BatchPage(site, oracle[idx + 1]), widget)
    /\ \E called \in {check_interaction(site, Strip(df[idx + 1].a), Strip(df[idx + 1].b),
                                         BatchPage(site, oracle[idx + 1]))} :
          IF called.kind = "raise"
          THEN /\ pc' = "stopped"
               /\ ended' = Append(ended, "crashed")
               /\ exit_status' = Append(exit_status, 0)
               /\ closes' = ClosesAfter("crashed", closes)
               /\ UNCHANGED <<fileVars, df, idx>>
          ELSE \E df_ \in {[df EXCEPT ![idx + 1].severity = called.value.Severity,
                                      ![idx + 1].text = called.value.Text]} :
                  /\ df' = df_
                  /\ IF SaveDue(idx, end_row) THEN SaveOutput(df_)
                     ELSE UNCHANGED <<input_file, output_file>>
                  /\ checkpoint_file' = CheckpointOf(site, df_)
                  /\ \E wait \in {"ok", "error"} :
                        IF idx < end_row - 1 /\ wait = "error"
                        THEN /\ pc' = "stopped"
                             /\ ended' = Append(ended, "crashed")
                             /\ exit_status' = Append(exit_status, 0)
                             /\ closes' = ClosesAfter("crashed", closes)
                             /\ idx' = idx
                        ELSE /\ idx' = NextIndex(idx, called.value.Severity)
                             /\ UNCHANGED <<pc, ended, exit_status, closes>>
    /\ UNCHANGED <<table0, oracle, in_place, start_row, end_row, run, site, pair, page,
                   extracted, debug_files, clicks, result, drug_name, options,
                   best_match, callVars, input_kind, sessions>>

\* one iteration of the row loop of DrugBankScraper.run: process_row, and
\* save_checkpoint every 10 rows
LegacyProcessRow ==
    /\ pc = "loop" /\ idx < end_row
    /\ site = "legacy"
    /\ calls' = [calls EXCEPT ![idx + 1] = @ + 1]
    /\ widget' = WidgetAfter(site, df[idx + 1].a, df[idx + 1].b,
                          BatchPage(site, oracle[idx + 1]), widget)
    /\ carried' = carried \o WidgetAtEntry(site, BatchPage(site, oracle[idx + 1]), widget)
    /\ \E written \in {process_row(df[idx + 1].a, df[idx + 1].b,
                                    BatchPage(site, oracle[idx + 1]))} :
          \E df_ \in {[df EXCEPT ![idx + 1].severity = written[1],
                                 ![idx + 1].text = written[2]]} :
             /\ df' = df_
             /\ IF (idx + 1) % SaveEvery = 0 THEN SaveOutput(df_)
                ELSE UNCHANGED <<input_file, output_file>>
    /\ idx' = idx + 1
    /\ UNCHANGED <<table0, oracle, in_place, checkpoint_file, start_row, end_row, pc, run, ended,
                   site, pair, page, extracted, debug_files, clicks, result, drug_name,
                   options, best_match, callVars, input_kind, sessions, closes,
                   exit_status>>

\* the loop is over: "Final save"
FinishRun ==
    /\ pc = "loop" /\ idx >= end_row
    /\ SaveOutput(df)
    /\ pc' = "done"
    /\ ended' = Append(ended, "done")
    /\ exit_status' = Append(exit_status, 0)
    /\ closes' = ClosesAfter("done", closes)
    /\ UNCHANGED <<table0, oracle, in_place, checkpoint_file, df, idx, calls, start_row, end_row,
                   run, site, pair, page, extracted, debug_files, clicks, result, matchVars,
                   input_kind, sessions, carried>>

\* Ctrl-C between two rows.  process_drug_pairs saves df to the output file
\* when KeyboardInterrupt is raised inside it (handled) and returns; when the
\* interrupt reaches the coroutine as asyncio's cancellation, neither except
\* clause matches, only "finally" runs, and asyncio.run raises
\* KeyboardInterrupt (exit status 130).  DrugBankScraper.run has no handler.
Interrupt ==
    /\ pc = "loop"
    /\ \E handled \in BOOLEAN :
          IF site # "legacy" /\ handled
          THEN /\ SaveOutput(df)
               /\ ended' = Append(ended, "interrupted")
               /\ exit_status' = Append(exit_status, 0)
               /\ closes' = ClosesAfter("interrupted", closes)
          ELSE /\ UNCHANGED <<input_file, output_file>>
               /\ ended' = Append(ended, "cancelled")
               /\ exit_status' = Append(exit_status, 130)
               /\ closes' = ClosesAfter("cancelled", closes)
    /\ pc' = "stopped"
    /\ UNCHANGED <<table0, oracle, in_place, checkpoint_file, df, idx, calls, start_row, end_row,
                   run, site, pair, page, extracted, debug_files, clicks, result, matchVars,
                   input_kind, sessions, carried>>

Next ==
    \/ StartRun \/ RejectInput \/ SkipRow \/ ProcessRow \/ LegacyProcessRow
    \/ FinishRun \/ Interrupt

Spec == Init /\ [][Next]_vars

(***************************************************************************)
(* Specification of the batch runners over a table longer than the save    *)
(* interval: the same runs, on tables of LongRows rows                     *)
(***************************************************************************)
LongRows == 13

\* a fresh table, or one whose row number SaveEvery is already filled in
LongTables ==
    {[k \in 1..LongRows |->
        [a |-> PairOfRow(k).a, b |-> PairOfRow(k).b,
         severity |-> IF k = filled THEN Minor ELSE <<>>,
         text |-> IF k = filled THEN KnownText ELSE <<>>]] :
        filled \in {0, SaveEvery}}

InitLong ==
    /\ site \in Runners
    /\ input_kind \in InputKinds(site)
    /\ table0 \in LongTables
    /\ oracle \in {[k \in 1..LongRows |-> w] : w \in {"interaction", "no_interaction"}}
    /\ in_place \in (IF site = "legacy" THEN {FALSE} ELSE BOOLEAN)
    /\ input_file = InputFileOf(input_kind, table0)
    /\ sessions = 0 /\ closes = 0
    /\ carried = <<>>
    /\ exit_status = <<>>
    /\ output_file = NoFile
    /\ checkpoint_file = NoFile
    /\ df = <<>>
    /\ idx = 0
    /\ calls = <<>>
    /\ start_row = 0
    /\ end_row = 0
    /\ pc = "idle"
    /\ run = 0
    /\ ended = <<>>
    /\ pair = <<>>
    /\ page = <<>>
    /\ extracted = <<>>
    /\ debug_files = NoDebugFiles /\ clicks = <<>>
    /\ result = <<>>
    /\ MatchIdle

SpecLong == InitLong /\ [][Next]_vars

(***************************************************************************)
(* Properties of _select_best_match (under SpecMatch)                      *)
(***************************************************************************)
\* the smallest member of a non-empty set of positions
FirstOf(S) == CHOOSE k \in S : \A j \in S : k <= j

\* the options of opts that satisfy rule r (1 exact, 2 starts with, 3 contains,
\* 4 reverse contains on the option's base name) for the typed name
Satisfying(r, name, opts) ==
    {k \in 1..Len(opts) : StrategyTest(r, Strip(StrLower(name)), opts[k])}

\* the similarity of option k's base name to the typed name
SimilarityOf(name, opts, k) ==
    calculate_similarity(Strip(StrLower(name)), OptionDrugName(Strip(StrLower(opts[k]))))

\* the options whose similarity no other option exceeds
MostSimilar(name, opts) ==
    {k \in 1..Len(opts) :
        \A j \in 1..Len(opts) :
            ~FracGreater(SimilarityOf(name, opts, j), SimilarityOf(name, opts, k))}

\* the position the ranking of the rules selects in a non-empty list
RankedChoice(name, opts) ==
    LET rules == {r \in 1..4 : Satisfying(r, name, opts) # {}}
    IN  IF rules # {} THEN FirstOf(Satisfying(FirstOf(rules), name, opts))
        ELSE IF \E k \in 1..Len(opts) :
                    FracGreater(SimilarityOf(name, opts, k), SimilarityThreshold)
        THEN FirstOf(MostSimilar(name, opts))
        ELSE 1

HeadingAbsent(p) ==
    \/ p.role = "hidden"
    \/ p.role = "raise" /\ ~FallbackHeaderFound(p)

\* C2: on the drugs.com results page, when the heading is absent, the extractor
\* returns exactly (None, 'No drug-drug interactions found') on every header
\* detection path, and the pair's status is Success.
C2_HeadingAbsentIsNone ==
    (site = "drugscom" /\ PipelineOk(site, page) /\ HeadingAbsent(page)) =>
        /\ extracted # <<>> =>
              extracted[1] = Return(<<NoneSeverity, NoInteractionText>>)
        /\ result # <<>> =>
              /\ result[1].value.Severity = NoneSeverity
              /\ result[1].value.Text = NoInteractionText
              /\ result[1].value.Status = "Success"

\* C3: every return path of the drugs.com _extract_severity yields a pair
\* (severity, text), so the unpacking in check_interaction succeeds.
C3_ReturnsPair ==
    (site = "drugscom" /\ extracted # <<>> /\ extracted[1].kind = "return") =>
        /\ Len(extracted[1].value) = 2
        /\ Unpack2(extracted[1].value).kind = "return"

\* C4: the result extractors (_extract_severity of drugs.com,
\* _extract_severity_and_text of DrugBank) never raise.
C4_ExtractorNeverRaises ==
    extracted # <<>> => extracted[1].kind = "return"

\* C6: in every result check_interaction returns, severity Error has status
\* Failed and a severity in {Major, Moderate, Minor, None} has status Success.
C6_StatusMatchesSeverity ==
    result # <<>> =>
        /\ result[1].kind = "return"
        /\ result[1].value.Severity = ErrorSeverity => result[1].value.Status = "Failed"
        /\ result[1].value.Severity \in {Major, Moderate, Minor, NoneSeverity}
              => result[1].value.Status = "Success"

\* C6 witness: a result with severity None and status Success
C6_NoneIsSuccess ==
    /\ result # <<>>
    /\ result[1].value.Severity = NoneSeverity
    /\ result[1].value.Status = "Success"

\* the navigation to the checker page timed out
NavigationTimedOut(p) == p.goto = "timeout"

\* the page was reached, both drugs were added, and the wait for (or click on) the
\* Check Interactions control timed out
TriggerTimedOut(s, p) ==
    /\ p.goto = "ok"
    /\ p.add = <<"ok", "ok">>
    /\ IF s = "drugscom" THEN p.button = "timeout"
       ELSE \A k \in 1..NumButtonSelectors : p.click[k] = "timeout"

\* C8: a timeout while waiting for the trigger control or the page navigation
\* yields severity 'Timeout' (not 'Error').
C8_TimeoutIsRecorded ==
    (result # <<>> /\ (NavigationTimedOut(page) \/ TriggerTimedOut(site, page))) =>
        result[1].value.Severity = TimeoutSeverity

\* the results page is in its no-interaction state: on drugs.com the section
\* under the heading holds the two phrases of the sentinel, on DrugBank there
\* is no result container
NoInteractionState(s, p) ==
    IF s = "drugscom"
    THEN /\ p.role = "visible" \/ (p.role = "raise" /\ FallbackHeaderFound(p))
         /\ p.h2 = "element" \/ (p.h2 = "none" /\ p.h3 = "element")
         /\ p.section_text # Raise
         /\ StrIn(NoDrugPhrase, p.section_text)
         /\ StrIn(WereFoundPhrase, p.section_text)
    ELSE p.container = "none"

\* C9: when the page is in its no-interaction state, the recorded severity is
\* exactly 'None' with the text 'No drug-drug interactions found', and the
\* status is Success.
C9_NoInteractionIsNone ==
    (result # <<>> /\ PipelineOk(site, page) /\ NoInteractionState(site, page)) =>
        /\ result[1].value.Severity = NoneSeverity
        /\ result[1].value.Text = NoInteractionText
        /\ result[1].value.Status = "Success"

(***************************************************************************)
(* Properties of the batch runners (under Spec)                            *)
(***************************************************************************)
\* the rows of the output file of one uninterrupted pass of process_drug_pairs
\* over the table, started without a checkpoint, with the answers orc
OnePass(s, table, orc) ==
    [k \in 1..Len(table) |->
        LET row == FromCsvRow(table[k])
            checked == check_interaction(s, Strip(row.a), Strip(row.b),
                                         BatchPage(s, orc[k])).value
        IN  IF AlreadyProcessed(row.severity) THEN ToCsvRow(row)
            ELSE ToCsvRow([row EXCEPT !.severity = checked.Severity,
                                      !.text = checked.Text])]

\* C1: for both runners of process_drug_pairs, interrupting a run after a row and
\* running again with the same arguments ends with the same output table, row
\* for row, as one uninterrupted pass, given the same per-pair page results.
C1_ResumeEqualsOnePass ==
    (site \in {"drugscom", "drugbank"} /\ pc = "done"
        /\ ended = <<"interrupted", "done">>) =>
        OutputFile.rows = OnePass(site, table0, oracle)

SeverityVocabulary ==
    {Major, Moderate, Minor, NoneSeverity, ErrorSeverity, TimeoutSeverity}

\* C5: every severity a runner writes to the table (both scrapers, and the first
\* DrugBank scraper scrape_drugbank_ddi.py) is one of Major, Moderate, Minor,
\* None, Error, Timeout.
C5_SeverityInVocabulary ==
    \A k \in 1..Len(df) : calls[k] >= 1 => df[k].severity \in SeverityVocabulary

\* both drugs were added and no strategy locates the Check Interactions control
ButtonUnlocatable(s, p) ==
    /\ p.goto = "ok"
    /\ p.add = <<"ok", "ok">>
    /\ IF s = "drugscom" THEN p.button # "ok" ELSE click_check_button(p).kind = "raise"

\* the pages of site s on which a step before the extractor fails
PipelinePages(s) == IF s = "drugscom" THEN DrugsComPipelinePages ELSE DrugBankPipelinePages

\* check_interaction returns a result with severity Error or Timeout and a
\* non-empty Error_Message
FailureResult(called) ==
    /\ called.kind = "return"
    /\ called.value.Severity \in {ErrorSeverity, TimeoutSeverity}
    /\ called.value.Error_Message \notin {PyNone, <<>>}

\* the severity and text check_interaction answers for row k of the run
RowResult(k) ==
    check_interaction(site, Strip(df[k].a), Strip(df[k].b),
                      BatchPage(site, oracle[k])).value

\* C7: when the Check-Interactions control cannot be located for a pair,
\* check_interaction returns (does not raise) a result with severity Error or
\* Timeout and a non-empty Error_Message, however the control fails; the runner
\* writes that row (to the table and the checkpoint) and goes on, and the next
\* pair it processes is recorded with its own result.
C7_ButtonFailureIsWritten ==
    site \in {"drugscom", "drugbank"} =>
        \A k \in 1..Len(df) :
            (calls[k] >= 1 /\ oracle[k] = "no_button") =>
                /\ \A p \in PipelinePages(site) :
                      ButtonUnlocatable(site, p) =>
                          FailureResult(check_interaction(site, Strip(df[k].a),
                                                          Strip(df[k].b), p))
                /\ df[k].severity \in {ErrorSeverity, TimeoutSeverity}
                /\ df[k].severity = RowResult(k).Severity
                /\ df[k].text = RowResult(k).Text
                /\ checkpoint_file.rows[k].severity = df[k].severity
                /\ checkpoint_file.rows[k].Status = "Failed"
                /\ (k < Len(df) /\ calls[k + 1] >= 1) =>
                      /\ df[k + 1].severity = RowResult(k + 1).Severity
                      /\ df[k + 1].text = RowResult(k + 1).Text

\* C7 witness: the first row's control was not located and is written as Error,
\* and the second row was then checked and holds its own severity
C7_NextPairProcessed ==
    /\ site \in {"drugscom", "drugbank"}
    /\ pc = "loop" /\ idx = 2
    /\ calls = <<1, 1>>
    /\ oracle[1] = "no_button" /\ oracle[2] = "interaction"
    /\ df[1].severity = ErrorSeverity
    /\ df[2].severity \in {Major, Moderate}

(***************************************************************************)
(* Properties of _add_drug (under SpecAdd)                                  *)
(***************************************************************************)
\* C11: _add_drug either returns with exactly one drug registered in the
\* widget for that call, or raises: after every call that returned normally
\* the widget holds one drug per call made.
C11_AddRegistersOrRaises ==
    (\A n \in 1..Len(result) : result[n].kind = "return")
        => Len(widget) = Len(result)

(***************************************************************************)
(* Properties of the runs (under Spec; C16 under SpecLong)                 *)
(***************************************************************************)
\* C12: when the row loop stops because of KeyboardInterrupt or of an
\* unexpected exception, the output file holds the result of every row
\* checked in the run.
C12_StopFlushesResults ==
    pc = "stopped" =>
        \A k \in 1..Len(df) :
            calls[k] >= 1 =>
                /\ OutputFile.exists
                /\ k <= Len(OutputFile.rows)
                /\ OutputFile.rows[k] = ToCsvRow(df[k])

\* a severity that is a result: not missing, not a placeholder, not a failure
Definitive(severity) ==
    severity \notin {NaN, PyNone, <<>>, TBD, ErrorSeverity, TimeoutSeverity}

\* C13: an iteration of the row loop of process_drug_pairs on a row whose
\* severity is definitive calls check_interaction for no row and leaves the
\* table unchanged; an iteration on any other row calls check_interaction
\* for that row.
C13_DefinitiveRowsAreSkipped ==
    [][(site \in Sites /\ pc = "loop" /\ idx < end_row
            /\ (idx' # idx \/ calls' # calls))
        => IF Definitive(df[idx + 1].severity)
           THEN calls' = calls /\ df' = df /\ idx' = idx + 1
           ELSE calls'[idx + 1] = calls[idx + 1] + 1]_vars

\* C13 witness: a first run over a table with one definitive row has ended;
\* that row was not checked and keeps its severity and text, the other was checked
C13_SkippedAndChecked ==
    /\ site \in Sites /\ run = 1 /\ pc = "done"
    /\ \E j, k \in 1..Len(df) :
          /\ table0[j].severity = Minor /\ calls[j] = 0
          /\ df[j].severity = Minor /\ df[j].text = KnownText
          /\ ~Definitive(table0[k].severity) /\ calls[k] = 1

\* row k was checked by a first, complete run and came back Error or Timeout
EndedFirstRunFailed(k) ==
    /\ ~AlreadyProcessed(FromCsvCell(table0[k].severity))
    /\ RowResult(k).Severity \in {ErrorSeverity, TimeoutSeverity}

\* C14: when a complete run of process_drug_pairs is followed by a second
\* complete run over the same table that resumes from the checkpoint, the
\* second run passes to check_interaction every row the first run left with
\* severity Error or Timeout, and no other row.
C14_FailedRowsAreRetried ==
    (site \in Sites /\ pc = "done" /\ ended = <<"done", "done">>) =>
        \A k \in 1..Len(df) : (calls[k] >= 1) <=> EndedFirstRunFailed(k)

\* C15: between two iterations of the row loop of process_drug_pairs, and
\* after the loop, the checkpoint file exists and holds, for every row the
\* run has checked, the severity and the text the run wrote for it.
C15_CheckpointHoldsCheckedRows ==
    site \in Sites =>
        \A k \in 1..Len(df) :
            calls[k] >= 1 =>
                /\ checkpoint_file.exists
                /\ k <= Len(checkpoint_file.rows)
                /\ checkpoint_file.rows[k].severity = ToCsvCell(df[k].severity)
                /\ checkpoint_file.rows[k].text = ToCsvCell(df[k].text)

\* C15 witness: the loop has checked two rows and is about to go on; the
\* checkpoint holds the result of the second and of the first
C15_SecondRowCheckpointed ==
    /\ site \in Sites /\ pc = "loop" /\ idx = 2
    /\ calls[1] = 1 /\ calls[2] = 1
    /\ df[1].severity = ErrorSeverity /\ df[2].severity = Moderate
    /\ checkpoint_file.rows[1].severity = ErrorSeverity
    /\ checkpoint_file.rows[2].severity = Moderate
    /\ checkpoint_file.rows[2].text = df[2].text

\* the rows the run has checked whose result is not in the output file
Unsaved ==
    {k \in 1..Len(df) :
        /\ calls[k] >= 1
        /\ ~(/\ OutputFile.exists
             /\ k <= Len(OutputFile.rows)
             /\ OutputFile.rows[k] = ToCsvRow(df[k]))}

\* C16: at no point of the row loop are there more than 10 checked rows
\* whose results are in memory only and not in the output file.
C16_AtMostTenUnsaved ==
    pc = "loop" => Cardinality(Unsaved) <= SaveEvery

\* the pair of row k fails: the site does not load, or the Check
\* Interactions control cannot be clicked
PairFails(k) == oracle[k] \in {"no_button", "nav_timeout"}

\* C17: every row a runner has processed whose pair failed is recorded with
\* severity Error or Timeout, never with a definitive severity such as None.
C17_FailureIsErrorOrTimeout ==
    \A k \in 1..Len(df) :
        (calls[k] >= 1 /\ PairFails(k)) =>
            df[k].severity \in {ErrorSeverity, TimeoutSeverity}

\* C18: a process of either command-line scraper whose input file does not
\* exist, cannot be read or lacks the drug-name columns ends with a non-zero
\* exit status, and a process ends with status 0 only when it completed the
\* row range or flushed on an interrupt.
C18_ExitStatusTellsFailure ==
    site \in Sites =>
        \A n \in 1..Len(exit_status) :
            /\ ended[n] = "rejected" => exit_status[n] # 0
            /\ exit_status[n] = 0 => ended[n] \in {"done", "interrupted"}

\* C19: when the input table cannot be read, has an unsupported format or
\* lacks the drug-name columns, no browser session is opened and neither the
\* output table nor the checkpoint file is written.
C19_RejectedInputTouchesNothing ==
    (site \in Sites
        /\ input_kind \in {"missing", "unreadable", "unsupported", "no_columns"}) =>
        /\ sessions = 0 /\ closes = 0
        /\ output_file = NoFile
        /\ checkpoint_file = NoFile
        /\ input_file = InputFileOf(input_kind, table0)

\* C19 witness: process_drug_pairs has returned on a table without the
\* drug-name columns; no session was opened and no file written
C19_ReturnedOnMissingColumns ==
    /\ site \in Sites /\ input_kind = "no_columns"
    /\ ended # <<>> /\ ended[1] = "rejected"
    /\ sessions = 0 /\ closes = 0
    /\ output_file = NoFile /\ checkpoint_file = NoFile

\* C20: within one run no row is passed to check_interaction more than once.
C20_AtMostOneCallPerRow ==
    \A k \in 1..Len(calls) : calls[k] <= 1

\* C20 witness: a run has gone through the table; a row came back Error or
\* Timeout from its one call
C20_FailedRowCalledOnce ==
    /\ site \in Sites /\ pc = "done"
    /\ \E k \in 1..Len(df) :
          calls[k] = 1 /\ df[k].severity \in {ErrorSeverity, TimeoutSeverity}

(***************************************************************************)
(* Properties of the rate limit (under SpecWait)                           *)
(***************************************************************************)
\* C21: the drugs.com runner waits at least 3000 ms in total after a
\* processed pair that is not the last row, for every random draw and every
\* value of --delay, and does not wait after the last row.
C21_WaitAtLeastThreeSeconds ==
    total_wait # <<>> =>
        IF idx < end_row - 1 THEN total_wait[1] >= MinDelayMs
        ELSE total_wait[1] = 0

(***************************************************************************)
(* C22: a page operation that raises during the drugs.com extraction       *)
(***************************************************************************)
\* the selector queries and element reads the severity scan makes before it stops
RECURSIVE ScanOperationRaised(_, _)
ScanOperationRaised(scan, k) ==
    IF k > Len(scan) THEN FALSE
    ELSE IF scan[k].raises THEN TRUE
    ELSE IF \E j \in 1..Len(scan[k].elements) :
               /\ ElementLoop(SubSeq(scan[k].elements, 1, j - 1), 1) = <<>>
               /\ (scan[k].elements[j].class = Raise \/ scan[k].elements[j].text = Raise)
    THEN TRUE
    ELSE IF ElementLoop(scan[k].elements, 1) # <<>> THEN FALSE
    ELSE ScanOperationRaised(scan, k + 1)

\* an operation that _extract_severity made on page p raised: the header lookup,
\* the section lookup, the read of the section text, the scan or the HTML read
ExtractionRaised(p) ==
    \/ p.role = "raise"
    \/ HeaderFound(p) /\ ~SectionFound(p) /\ SectionLookup(p) # "none"
    \/ SectionFound(p) /\ p.section_text = Raise
    \/ ScanReached(p) /\ ScanOperationRaised(p.scan, 1)
    \/ ScanReached(p) /\ SelectorLoop(p.scan, 1) = <<>> /\ p.html = Raise

\* C22: when a page operation raises at any stage of the drugs.com extraction,
\* _extract_severity saves a diagnostic snapshot and returns the severity 'Error',
\* never a definitive severity such as 'None'.
C22_RaisingStageReturnsError ==
    (site = "drugscom" /\ extracted # <<>> /\ ExtractionRaised(page)) =>
        /\ extracted[1].kind = "return"
        /\ extracted[1].value[1] = ErrorSeverity

(***************************************************************************)
(* C23: the severity comes from the scoped section or result container     *)
(***************************************************************************)
\* a severity word or class token is inside the drug-drug section of the page:
\* the elements and the HTML are read through interaction_section
SectionHasSeverity(p) ==
    SectionFound(p) /\ (SelectorLoop(p.scan, 1) # <<>> \/ HtmlSeverity(p.html) # <<>>)

\* a severity word is in a text of the result container of the page: its
\* severity heading, its description row or the text of the container itself
ContainerHasSeverity(p) ==
    /\ p.container = "present"
    /\ \E t \in {p.severity_text, p.description_text, p.container_text} :
           t # Raise /\ KeywordChain(StrUpper(t)) # <<>>

\* C23: the severity is derived only from content inside the scoped section
\* (drugs.com) or result container (DrugBank): on a page whose severity words or
\* class tokens are all outside of it, the extractor returns no Major, Moderate
\* or Minor.
C23_SeverityOnlyFromScope ==
    (site \in {"drugscom", "drugbank"} /\ extracted # <<>>
       /\ extracted[1].kind = "return" /\ Len(extracted[1].value) = 2
       /\ extracted[1].value[1] \in {Major, Moderate, Minor}) =>
        IF site = "drugscom" THEN SectionHasSeverity(page)
        ELSE ContainerHasSeverity(page)

(***************************************************************************)
(* C24: the drug-drug section is found and no strategy yields a severity   *)
(***************************************************************************)
\* STEPS 4 and 5 ran on the section and neither yielded a severity token
NoSeverityInSection(p) ==
    ScanReached(p) /\ SelectorLoop(p.scan, 1) = <<>> /\ HtmlSeverity(p.html) = <<>>

\* section_text at STEP 6: '' when the read of the section text raised
CapturedText(p) == IF p.section_text = Raise THEN <<>> ELSE p.section_text

\* 'None' with the captured text, or with the sentinel when nothing was captured
NoneWithCapturedText(p) ==
    Return(<<NoneSeverity,
             IF CapturedText(p) = <<>> THEN NoInteractionText
             ELSE Strip(CapturedText(p))>>)

WordChars ==
    {"A","B","C","D","E","F","G","H","I","J","K","L","M","N","O","P","Q","R","S","T",
     "U","V","W","X","Y","Z","a","b","c","d","e","f","g","h","i","j","k","l","m","n",
     "o","p","q","r","s","t","u","v","w","x","y","z","0","1","2","3","4","5","6","7",
     "8","9","_"}

\* word occurs in text with no word character right before or right after it
WholeWordIn(word, text) ==
    \E i \in 1..(Len(text) - Len(word) + 1) :
        /\ SubSeq(text, i, i + Len(word) - 1) = word
        /\ i = 1 \/ text[i - 1] \notin WordChars
        /\ i + Len(word) > Len(text) \/ text[i + Len(word)] \notin WordChars

\* MAJOR, MODERATE or MINOR is a whole word of the text, in any case
HasSeverityWord(text) ==
    /\ text # Raise
    /\ \E k \in 1..Len(SeverityKeywords) : WholeWordIn(SeverityKeywords[k], StrUpper(text))

\* no scanned element of the drugs.com section carries a severity class token
\* and the HTML of the section has none
NoClassToken(p) ==
    /\ \A k \in 1..Len(p.scan) : \A j \in 1..Len(p.scan[k].elements) :
           LET element_class == p.scan[k].elements[j].class
           IN  ~(StrIn(MajorClass, element_class) \/ StrIn(ModerateClass, element_class)
                 \/ StrIn(MinorClass, element_class))
    /\ HtmlSeverity(p.html) = <<>>

\* C25: a severity is recognised from element text only when MAJOR, MODERATE or
\* MINOR occurs in it as a whole word, in any case: a text such as 'MINORITY'
\* produces no severity (drugs.com: the scanned elements of the section;
\* DrugBank: the severity heading and the elements with a severity class).
C25_SeverityWordIsWholeWord ==
    (extracted # <<>> /\ extracted[1].kind = "return" /\ Len(extracted[1].value) = 2
       /\ extracted[1].value[1] \in {Major, Moderate, Minor}) =>
        IF site = "drugscom"
        THEN NoClassToken(page) =>
                \E k \in 1..Len(page.scan) : \E j \in 1..Len(page.scan[k].elements) :
                    HasSeverityWord(page.scan[k].elements[j].text)
        ELSE (page.content = Raise \/ KeywordChain(StrUpper(page.content)) = <<>>) =>
                \/ HasSeverityWord(page.severity_text)
                \/ \E j \in 1..Len(page.severity_elements.elements) :
                       HasSeverityWord(page.severity_elements.elements[j])

(***************************************************************************)
(* C26: _click_check_button and the snapshot of a failed button step       *)
(***************************************************************************)
\* no strategy of _click_check_button gets its wait and its click through
ButtonFails(p) == \A k \in 1..Len(p.click) : p.click[k] # "ok"

\* the call did what the strategies in listed order allow: it raised exactly
\* when all of them fail, and else it clicked once, with the first that succeeds
ClickedFirstThatSucceeds ==
    clicks # <<>> =>
        /\ Len(clicks[1].clicked) <= 1
        /\ clicks[1].out.kind = "raise" <=> ButtonFails(page)
        /\ clicks[1].out.kind = "raise" => clicks[1].clicked = <<>>
        /\ clicks[1].out.kind = "return" =>
              \E k \in 1..Len(page.click) :
                  /\ clicks[1].clicked = <<k>> /\ clicks[1].out.value = k
                  /\ page.click[k] = "ok"
                  /\ \A j \in 1..(k - 1) : page.click[j] # "ok"

\* check_interaction reached the button step of DrugBank and the button failed
ButtonStepFailed ==
    /\ site = "drugbank" /\ result # <<>>
    /\ page.goto = "ok" /\ page.add = <<"ok", "ok">> /\ ButtonFails(page)

C27_ExactlyOneCommit ==
    site = "drugbank" =>
        \A n \in 1..Len(result) :
            result[n].kind = "return" =>
                commits[n] \in {<<"click">>, <<"enter">>}

(***************************************************************************)
(* C28: what _extract_description returns                                  *)
(***************************************************************************)
\* C28: _extract_description returns either the literal 'No description found'
\* or a trimmed text of more than 10 characters, never an empty or near-empty
\* string, whichever of its three strategies produced it.
C28_DescriptionIsSubstantial ==
    (site = "drugbank" /\ extracted # <<>> /\ extracted[1].kind = "return") =>
        LET description_text == extracted[1].value[2]
        IN  \/ description_text = NoDescriptionText
            \/ /\ Len(description_text) > MinDescriptionLen
               /\ Strip(description_text) = description_text

(***************************************************************************)
(* C29: one browser session per run, a fresh checker page per pair         *)
(***************************************************************************)
\* the runs so far that got past their input checks
RunsStarted == run - Cardinality({k \in 1..Len(ended) : ended[k] = "rejected"})

\* C29: each batch run opens exactly one browser session and uses it for every
\* pair, and each pair starts with a fresh navigation to the checker page, so
\* that no drug of an earlier pair is still in the widget when a pair is entered.
C29_OneSessionFreshPagePerPair ==
    site \in {"drugscom", "drugbank", "legacy"} =>
        /\ sessions = RunsStarted
        /\ carried = <<>>

(***************************************************************************)
(* Specification of _calculate_similarity on its own: every pair of        *)
(* strings over SimChars of at most MaxSimLen characters                   *)
(***************************************************************************)
MaxSimLen == 3
SimChars == {"a", "b", "c"}
SimStrings == SeqsUpTo(SimChars, MaxSimLen)

InitSim ==
    /\ string1 \in SimStrings
    /\ string2 \in SimStrings
    /\ similarity_score = <<>>
    /\ delay_arg = 0 /\ random_delay_ms = 0 /\ total_wait = <<>> /\ commits = <<>>
    /\ drug_name = <<>> /\ options = <<>> /\ best_match = <<>> /\ widget = <<>>
    /\ CheckIdle
    /\ BatchIdle

\* one call _calculate_similarity(str1, str2)
CalculateSimilarity ==
    /\ similarity_score = <<>>
    /\ similarity_score' = <<calculate_similarity(string1, string2)>>
    /\ UNCHANGED <<string1, string2, delay_arg, random_delay_ms, total_wait, commits,
                   drug_name, options, best_match, widget, checkVars, batchVars>>

NextSim == CalculateSimilarity

SpecSim == InitSim /\ [][NextSim]_vars

\* C30: _calculate_similarity returns a score between 0 and 1 for all pairs of
\* strings: the score is 2 * matches over len(str1) + len(str2) with
\* 2 * matches <= len(str1) + len(str2), and it is 0 when either string is empty.
C30_SimilarityBetweenZeroAndOne ==
    similarity_score # <<>> =>
        LET numerator == similarity_score[1][1]
            denominator == similarity_score[1][2]
        IN  /\ denominator > 0
            /\ 0 <= numerator /\ numerator <= denominator
            /\ (string1 = <<>> \/ string2 = <<>>) => numerator = 0
            /\ (string1 # <<>> /\ string2 # <<>>) => denominator = Len(string1) + Len(string2)

\* C30 witness: the score of two different strings that share characters in
\* order is strictly between 0 and 1
C30_PartialMatchScored ==
    /\ similarity_score # <<>>
    /\ string1 = <<"a", "b">> /\ string2 = <<"a", "c", "b">>
    /\ similarity_score[1] = <<4, 5>>

(***************************************************************************)
(* C31: the resume offset and the rows it leaves behind                    *)
(***************************************************************************)
\* the severity cell holds no result: it is missing, blank or the placeholder
Unprocessed(severity) == severity \in {NaN, PyNone, TBD, <<>>}

\* C31: the resume offset computed from the checkpoint never passes the first
\* row that lacks a definitive result: when a resumed run of process_drug_pairs
\* has completed, no row of the table is left unprocessed (missing or 'TBD').
C31_ResumeLeavesNoRowUnprocessed ==
    (site \in {"drugscom", "drugbank"} /\ pc = "done" /\ Len(ended) >= 2
        /\ ended[Len(ended)] = "done") =>
        \A k \in 1..Len(df) : ~Unprocessed(df[k].severity)

(***************************************************************************)
(* C32: the Status column of the checkpoint                                *)
(***************************************************************************)
\* the severities that are a result of a check: Major, Moderate, Minor, None
DefinitiveSeverities == {Major, Moderate, Minor, NoneSeverity}

\* C32: in every checkpoint file written, a row is marked Status 'Success' only
\* if its severity is a definitive result (Major, Moderate, Minor or None), and
\* every row not yet processed or with Error or Timeout is marked 'Failed'.
C32_SuccessOnlyForDefinitiveSeverity ==
    (site \in {"drugscom", "drugbank"} /\ checkpoint_file.exists) =>
        \A k \in 1..Len(checkpoint_file.rows) :
            /\ checkpoint_file.rows[k].Status = "Success" =>
                   checkpoint_file.rows[k].severity \in DefinitiveSeverities
            /\ checkpoint_file.rows[k].severity \in
                   {<<>>, TBD, ErrorSeverity, TimeoutSeverity} =>
                   checkpoint_file.rows[k].Status = "Failed"

(***************************************************************************)
(* C33: a severity 'None' across a save and the next load                  *)
(***************************************************************************)
\* the severities a table load reads from a written file, row by row
SeveritiesReadBack(file) == [k \in 1..Len(file.rows) |-> FromCsvCell(file.rows[k].severity)]

\* C33: a severity 'None' written to the output table or to the checkpoint by
\* one run is read back by the next run's table load as the same value 'None',
\* which the skip test takes as already processed, and not as a missing value.
C33_NoneSurvivesSaveAndLoad ==
    \A file \in {output_file, checkpoint_file} :
        (site \in {"drugscom", "drugbank"} /\ file.exists) =>
            \A k \in 1..Len(file.rows) :
                file.rows[k].severity = NoneSeverity =>
                    /\ SeveritiesReadBack(file)[k] = NoneSeverity
                    /\ AlreadyProcessed(SeveritiesReadBack(file)[k])

(***************************************************************************)
(* Specification of DrugBank's process_drug_pairs with a row range         *)
(* (--start / --end): runs of the same table over chosen ranges            *)
(***************************************************************************)
\* C34 mutant: the checkpoint is loaded whatever the start of the range
RangeLoadAnyStart(start, df_, ckpt) ==
    IF ckpt.exists /\ CompletedRows(ckpt) > 0
    THEN <<CompletedRows(ckpt), Backfill(df_, ckpt)>>
    ELSE <<start, df_>>

\* "if start_row == 0 and Path(checkpoint_file).exists()": the first row of the
\* loop and the table after the checkpoint has been looked at
RangeLoad(start, df_, ckpt) ==
    IF start = 0 THEN LoadCheckpoint(df_, ckpt) ELSE <<start, df_>>

\* the row ranges that lie in a table of n rows ("if end_row is None: end_row
\* = len(df)" is the range that ends at n)
RowRanges(n) == {<<s, e>> \in (0..n) \X (0..n) : s <= e}

\* the input tables of the ranged runs: no results yet, or one row filled in
RangeTables == {t \in InitialTables : \A k \in 1..NumRows : t[k].severity # TBD}

InitRange ==
    /\ site = "drugbank"
    /\ input_kind = "table"
    /\ table0 \in RangeTables
    /\ oracle \in {[k \in 1..NumRows |-> w] : w \in {"interaction", "no_button"}}
    /\ in_place \in BOOLEAN
    /\ input_file = InputFileOf(input_kind, table0)
    /\ sessions = 0 /\ closes = 0
    /\ carried = <<>>
    /\ exit_status = <<>>
    /\ output_file = NoFile
    /\ checkpoint_file = NoFile
    /\ df = <<>>
    /\ idx = 0
    /\ calls = <<>>
    /\ start_row = 0
    /\ end_row = 0
    /\ pc = "idle"
    /\ run = 0
    /\ ended = <<>>
    /\ pair = <<>>
    /\ page = <<>>
    /\ extracted = <<>>
    /\ debug_files = NoDebugFiles /\ clicks = <<>>
    /\ result = <<>>
    /\ MatchIdle

\* process_drug_pairs(input_file, output_file, checkpoint_file, start_row,
\* end_row) up to the row loop
StartRange ==
    /\ pc \in {"idle", "stopped", "done"}
    /\ run < MaxRuns
    /\ run' = run + 1
    /\ sessions' = sessions + 1
    /\ widget' = <<>>
    /\ carried' = <<>>
    /\ \E range \in RowRanges(Len(input_file.rows)) :
       \E loaded \in {RangeLoad(range[1], read_csv(input_file), checkpoint_file)} :
          /\ start_row' = range[1]
          /\ end_row' = range[2]
          /\ idx' = loaded[1]
          /\ df' = loaded[2]
          /\ calls' = [k \in 1..Len(loaded[2]) |-> 0]
    /\ pc' = "loop"
    /\ UNCHANGED <<table0, oracle, in_place, fileVars, ended, site, pair, page,
                   extracted, debug_files, clicks, result, drug_name, options,
                   best_match, callVars, input_kind, exit_status, closes>>

NextRange == StartRange \/ SkipRow \/ ProcessRow \/ FinishRun \/ Interrupt

SpecRange == InitRange /\ [][NextRange]_vars

\* row k (1-based) lies outside the range [start, end) of 0-based indices
OutsideRange(k, start, end) == k <= start \/ k > end

\* severity and text of a row
ResultOf(row) == <<row.severity, row.text>>

\* C34: with a row range [start_row, end_row), DrugBank's process_drug_pairs
\* changes severity and text only of rows inside the range: every row outside
\* it holds the values read from the input table when the loop begins, also
\* when a checkpoint file exists and is backfilled, and is left alone by every
\* step of the loop.
C34_RowsOutsideRangeKeepInput ==
    [][\A k \in 1..Len(df') :
          OutsideRange(k, start_row', end_row') =>
              IF pc # "loop" /\ pc' = "loop"
              THEN ResultOf(df'[k]) = ResultOf(read_csv(input_file)[k])
              ELSE pc = "loop" => ResultOf(df'[k]) = ResultOf(df[k])]_vars

\* C34 (amended): every row outside the range holds the values read from the
\* input table when the loop begins, unless the range starts at row 0 and the
\* checkpoint file has a 'Success' row: then every row the checkpoint covers
\* holds the values read from the checkpoint.  No step of the loop changes a
\* row outside the range.
C34_RowsOutsideRangeKeepInputOrCheckpoint ==
    [][\A k \in 1..Len(df') :
          OutsideRange(k, start_row', end_row') =>
              IF pc # "loop" /\ pc' = "loop"
              THEN ResultOf(df'[k]) =
                      IF /\ start_row' = 0 /\ checkpoint_file.exists
                         /\ \E j \in 1..Len(checkpoint_file.rows) :
                               checkpoint_file.rows[j].Status = "Success"
                         /\ k <= Len(checkpoint_file.rows)
                      THEN ResultOf(FromCsvRow(checkpoint_file.rows[k]))
                      ELSE ResultOf(read_csv(input_file)[k])
              ELSE pc = "loop" => ResultOf(df'[k]) = ResultOf(df[k])]_vars

\* C34 witness: a run over a range that leaves the last row out has begun
\* from a checkpoint, and that row holds a result the input table does not
C34_OutsideRowBackfilled ==
    /\ pc = "loop" /\ run = 2 /\ start_row = 0 /\ end_row < Len(df)
    /\ ~in_place /\ checkpoint_file.exists
    /\ df[Len(df)].severity = Major
    /\ read_csv(input_file)[Len(df)].severity = NaN

(***************************************************************************)
(* C35: the browser session is closed on every way out of the row loop     *)
(***************************************************************************)
\* C35: once the browser session of a run has been initialised it is closed
\* exactly once before the run function returns, however the row loop is left
\* (normal completion, KeyboardInterrupt, unexpected exception): while the loop
\* runs one session is open, and after the run every session opened is closed.
C35_SessionClosedExactlyOnce ==
    /\ pc = "loop" => closes = sessions - 1
    /\ pc \in {"idle", "done", "stopped"} => closes = sessions

\* C35 witness: a run left its loop on an unexpected exception, a later one on
\* Ctrl-C, and both sessions are closed
C35_ClosedAfterCrashAndInterrupt ==
    /\ pc = "stopped" /\ Len(ended) = 2 /\ ended[1] = "crashed"
    /\ ended[2] \in {"interrupted", "cancelled"}
    /\ sessions = 2 /\ closes = 2

(***************************************************************************)
(* C36, C37: the reverse-contains rule and the last resort of              *)
(* _select_best_match (under SpecMatch)                                    *)
(***************************************************************************)
\* the return statement of strategy 4 is the one reached: no option passes
\* the tests of strategies 1 to 3 and some option passes the test of strategy 4
ReverseContainsReturns(name, opts) ==
    /\ \A r \in 1..3 : Satisfying(r, name, opts) = {}
    /\ Satisfying(4, name, opts) # {}

\* option_drug_name of option k
BaseName(opts, k) == OptionDrugName(Strip(StrLower(opts[k])))

\* C36: _select_best_match selects an option by the reverse-contains rule only
\* when the option's base name (its text before '(' or '[', trimmed) is not
\* empty: an option that begins with '(' or '[' does not match every typed name.
C36_ReverseContainsNeedsBaseName ==
    (best_match # <<>> /\ ReverseContainsReturns(drug_name, options)) =>
        BaseName(options, best_match[1]) # <<>>

\* C37: _select_best_match returns a member of the given option list whenever
\* the list is not empty, and returns None only when the list is empty.
C37_ReturnsAnOptionUnlessNoneGiven ==
    best_match # <<>> =>
        IF options = <<>> THEN best_match[1] = 0
        ELSE best_match[1] \in 1..Len(options)

\* C37 witness: no strategy finds a match among the options given, and the
\* first option is returned
C37_LastResortReturnsFirstOption ==
    /\ best_match = <<1>> /\ Len(options) = 2
    /\ \A r \in 1..4 : Satisfying(r, drug_name, options) = {}
    /\ \A k \in 1..Len(options) :
          ~FracGreater(SimilarityOf(drug_name, options, k), SimilarityThreshold)

(***************************************************************************)
(* C38: the Status values of check_interaction                             *)
(***************************************************************************)
\* C38: the Status of a check_interaction result is always 'Success' or
\* 'Failed'; 'Completed with issues' is never produced, because the extractor
\* never hands check_interaction a severity outside Major, Moderate, Minor,
\* None and Error.
C38_StatusIsSuccessOrFailed ==
    (result # <<>> /\ result[1].kind = "return") =>
        result[1].value.Status \in {"Success", "Failed"}


\* C38 witness: drugs.com, no class token on the page: the severity comes from
\* the text of a scanned element, arrives capitalised and the status is Success
C38_TextSeverityIsSuccess ==
    /\ site = "drugscom" /\ result # <<>> /\ result[1].kind = "return"
    /\ NoClassToken(page)
    /\ result[1].value.Severity \in {Major, Moderate, Minor}
    /\ result[1].value.Status = "Success"

====
